---- MODULE Spec2Model ----
(***************************************************************************)
(* Model of githubanalyticsProject: the github_fetch block                 *)
(* (src/blocks.py, GitHubFetchBlock.execute) run against a remote API      *)
(* whose every call may succeed or fail.                                   *)
(*                                                                         *)
(* Strings are sequences of one-character strings.  JSON values that the   *)
(* code converts with int() are records [t, n]: t = "int" carries the      *)
(* number n, every other t is a value int() rejects.  TLC integers are     *)
(* 32 bit wide while Python's are unbounded, so the numbers the API        *)
(* returns are chosen below 2^31 and such that no sum the code forms       *)
(* leaves that range.                                                      *)
(***************************************************************************)
EXTENDS Integers, Sequences, FiniteSets, TLC

VARIABLES
    params_token,   \* params.get("token"): NoToken when the key is absent
    payload_token,  \* payload.get("token"): NoToken when absent
    env_token,      \* os.environ.get("GITHUB_TOKEN"): NoToken when unset
    repos_in,       \* payload["repos"], the raw input entries
    token,          \* the resolved token (blocks.py:235-239)
    pc,             \* position of execute(): start, loop, commits, langs, releases, traffic, done
    idx,            \* 1-based index into repos_in of the entry being processed
    full,           \* f"{owner}/{name}" of the current entry
    repo,           \* metadata response of the current entry
    commits_total,  \* local commits_total
    commits_err,    \* local commits_err
    langs,          \* local langs
    releases,       \* local releases (the dict entries collected so far)
    page,           \* local page of the releases loop
    traffic,        \* local traffic: function from the succeeded keys to their responses
    errs,           \* local errs of the traffic step
    tkey,           \* 1-based index into endpoints of the next traffic call
    out_repos,      \* out["repos"]
    out_errors,     \* out["errors"]
    meta_count,     \* meta["count"]
    calls,          \* history: every HTTP call issued, in order
    relLeft,        \* remote side: releases of the current repository not yet listed
    dev,            \* number of non-default API responses given so far
    budget,         \* how many non-default API responses this behaviour may hold
    payload,        \* the payload object github_aggregate is given (it is updated in place)
    agg_meta,       \* the metadata the last github_aggregate returned
    agg_n,          \* how many times github_aggregate has run on payload
    agg_edits,      \* how many times other code has rewritten a field of payload
    blocks,         \* Registry._blocks of BLOCKS: function from the names to the classes
    registered,     \* history: every register(name, cls) call, in order
    reg_result,     \* the outcome of the latest Registry.get / Registry.has call
    pl_steps,       \* Pipeline.blocks: the list of BlockInstance(name, params)
    pl_payload,     \* the payload Pipeline.run is given
    pl_pc,          \* position of Pipeline.run: idle, running, returned, raised
    pl_i,           \* 1-based index into pl_steps of the next step
    cur,            \* local cur of Pipeline.run
    meta_all,       \* meta_all["steps"] of Pipeline.run
    runner_calls,   \* history: every call of the runner with what it answered, in order
    raised,         \* the exception that left Pipeline.run
    cfg,            \* MainWindow.cfg, the in-memory config
    disk,           \* config.json at the default path
    combo_items,    \* the items of preset_combo, in order
    combo_index,    \* the current index of preset_combo (1-based, 0 for none)
    editor,         \* the lines of repos_edit
    token_edit,     \* the text of token_edit
    remember_cb,    \* whether remember_cb is checked
    gui_ops,        \* how many handlers have run
    gui_last,       \* history: the handler that ran last and what the user answered
    args,           \* the parsed command line of main(): cli, repos, token
    cli_config,     \* what load_json gives main() for config.json
    cli_pc,         \* position of main(): main, fetch, exited
    exit_code,      \* the exit status of the process (NoExit while it runs)
    stdout,         \* history: what main() and run_cli() have printed, in order
    report,         \* analytics_cli.json
    window          \* whether run_gui() was called

vars == <<params_token, payload_token, env_token, repos_in, token, pc, idx, full,
          repo, commits_total, commits_err, langs, releases, page, traffic, errs,
          tkey, out_repos, out_errors, meta_count, calls, relLeft, dev, budget,
          payload, agg_meta, agg_n, agg_edits, blocks, registered, reg_result,
          pl_steps, pl_payload, pl_pc, pl_i, cur, meta_all, runner_calls, raised,
          cfg, disk, combo_items, combo_index, editor, token_edit, remember_cb,
          gui_ops, gui_last, args, cli_config, cli_pc, exit_code, stdout, report, window>>

\* The variables of GitHubFetchBlock.execute
fetchVars == <<params_token, payload_token, env_token, repos_in, token, pc, idx, full,
               repo, commits_total, commits_err, langs, releases, page, traffic, errs,
               tkey, out_repos, out_errors, meta_count, calls, relLeft, dev, budget>>

\* The variables of GitHubAggregateBlock.execute
aggVars == <<payload, agg_meta, agg_n, agg_edits>>

\* The variables of MainWindow (config and presets)
guiVars == <<cfg, disk, combo_items, combo_index, editor, token_edit, remember_cb,
             gui_ops, gui_last>>

\* The variables of main() and run_cli()
cliVars == <<args, cli_config, cli_pc, exit_code, stdout, report, window>>

\* The variables of Registry, run_block and Pipeline.run
pipeVars == <<blocks, registered, reg_result, pl_steps, pl_payload, pl_pc, pl_i, cur,
              meta_all, runner_calls, raised>>

----------------------------------------------------------------------------
(* Bounds of the model *)

MaxRepos == 2
MaxDeviations == 1
MaxAggRepos == 2
MaxRuns == 2
MaxEdits == 1
MaxRegs == 2
MaxSteps == 2
MaxOps == 2

(* Program constants *)

ClampHi == 2000000000
PerPage == 100
MaxPages == 20
CommitsErrLen == 1200
TrafficErrLen == 800
SlugErrLen == 4000
UrlLen == 256
TagLen == 128
StampLen == 64
LangLen == 64

----------------------------------------------------------------------------
(* Strings *)

Whitespace == {" ", "\n", "\r", "\t"}

RECURSIVE LStrip(_, _)
LStrip(s, cs) ==
    IF s # <<>> /\ Head(s) \in cs THEN LStrip(Tail(s), cs) ELSE s

RECURSIVE RStrip(_, _)
RStrip(s, cs) ==
    IF s # <<>> /\ s[Len(s)] \in cs THEN RStrip(SubSeq(s, 1, Len(s) - 1), cs) ELSE s

StripChars(s, cs) == RStrip(LStrip(s, cs), cs)

Strip(s) == StripChars(s, Whitespace)

IsPrefix(p, s) == Len(p) <= Len(s) /\ SubSeq(s, 1, Len(p)) = p

RECURSIVE Replace(_, _, _)
Replace(s, old, new) ==
    IF s = <<>> THEN <<>>
    ELSE IF IsPrefix(old, s)
         THEN new \o Replace(SubSeq(s, Len(old) + 1, Len(s)), old, new)
         ELSE <<Head(s)>> \o Replace(Tail(s), old, new)

Contains(s, sub) ==
    \E i \in 1..(Len(s) - Len(sub) + 1) : SubSeq(s, i, i + Len(sub) - 1) = sub

RECURSIVE Join(_, _)
Join(sep, parts) ==
    IF parts = <<>> THEN <<>>
    ELSE IF Len(parts) = 1 THEN parts[1]
    ELSE parts[1] \o sep \o Join(sep, Tail(parts))

safe_str(s, n) ==
    LET t == [i \in 1..Len(s) |-> IF s[i] \in {"\r", "\n"} THEN " " ELSE s[i]]
    IN  IF Len(t) <= n THEN t ELSE SubSeq(t, 1, n)

----------------------------------------------------------------------------
(* Numbers *)

IntV(n) == [t |-> "int", n |-> n]
NoneV == [t |-> "none", n |-> 0]
TextV == [t |-> "text", n |-> 0]
NonDictV == [t |-> "nondict", n |-> 0]

clamp_int(v, lo, hi, default) ==
    IF v.t # "int" THEN default
    ELSE IF v.n < lo THEN lo
    ELSE IF v.n > hi THEN hi
    ELSE v.n

Max(a, b) == IF a >= b THEN a ELSE b
Min(a, b) == IF a <= b THEN a ELSE b

\* A JSON value read as text: a string, or None
Str(s) == [t |-> "str", s |-> s]
NoText == [t |-> "none", s |-> <<>>]

\* _safe_str(v or "", n)
SafeOrEmpty(v, n) == safe_str(IF v.t = "str" THEN v.s ELSE <<>>, n)

\* A text of n characters
LongText(n) == [i \in 1..n |-> "x"]

----------------------------------------------------------------------------
(* Repo identifiers *)

HostPrefix == <<"h", "t", "t", "p", "s", ":", "/", "/", "g", "i", "t", "h", "u", "b", ".", "c", "o", "m", "/">>

NoSlug == [ok |-> FALSE, owner |-> <<>>, name |-> <<>>]

\* Index of the first "/" of s (s holds one)
FirstSlash(s) == CHOOSE i \in 1..Len(s) : s[i] = "/" /\ \A j \in 1..(i - 1) : s[j] # "/"

parse_repo_slug(raw) ==
    LET s1 == Strip(raw)
        s2 == StripChars(Replace(s1, HostPrefix, <<>>), {"/"})
    IN  IF s1 = <<>> THEN NoSlug
        ELSE IF ~ \E i \in 1..Len(s2) : s2[i] = "/" THEN NoSlug
        ELSE LET k == FirstSlash(s2)
                 owner == Strip(SubSeq(s2, 1, k - 1))
                 name == Strip(SubSeq(s2, k + 1, Len(s2)))
             IN  IF owner = <<>> \/ name = <<>> THEN NoSlug
                 ELSE [ok |-> TRUE, owner |-> owner, name |-> name]

FullName(slug) == slug.owner \o <<"/">> \o slug.name

InvalidSlugMsg == <<"i", "n", "v", "a", "l", "i", "d", "_", "r", "e", "p", "o", "_", "s", "l", "u", "g">>

\* The raw entries a request is built from: a bare slug, a URL with padding
\* and a trailing slash, and an entry without a slash.
RawInputs == { <<"a", "/", "b">>, <<" ", "h", "t", "t", "p", "s", ":", "/", "/", "g", "i", "t", "h", "u", "b", ".", "c", "o", "m", "/", "c", "/", "d", "/">>, <<"a", "b", " ">> }

----------------------------------------------------------------------------
(* Token resolution, blocks.py:235-239 *)

NoToken == [some |-> FALSE, s |-> <<>>]
Tok(s) == [some |-> TRUE, s |-> s]

\* Python's (x or ""): None and "" both give ""
OrEmpty(t) == IF t.some THEN t.s ELSE <<>>

\* ResolveToken with the override taken only from a non-empty parameter
ResolveToken_Truthy(pt, pl, env) ==
    LET fromPayload == Strip(OrEmpty(pl))
        fromEnv == Strip(OrEmpty(env))
        tk == IF fromPayload # <<>> THEN fromPayload ELSE fromEnv
    IN  IF pt.some /\ pt.s # <<>> THEN Strip(OrEmpty(pt)) ELSE tk

ResolveToken(pt, pl, env) ==
    LET fromPayload == Strip(OrEmpty(pl))
        fromEnv == Strip(OrEmpty(env))
        tk == IF fromPayload # <<>> THEN fromPayload ELSE fromEnv
    IN  IF pt.some THEN Strip(OrEmpty(pt)) ELSE tk

----------------------------------------------------------------------------
(* The remote API.  A call returns [ok, err, data]: ok = FALSE is a call   *)
(* that raised (HTTP error, transport error, undecodable body) with the    *)
(* message err; ok = TRUE carries the decoded JSON in data.  For each kind *)
(* of call the first response listed is the ordinary one; every other      *)
(* response counts against MaxDeviations.                                  *)

\* str(e) of the RuntimeError raised at blocks.py:166/168: a fixed beginning
\* (status and URL are left out), a newline, then the response body.
ErrHead == <<"G", "i", "t", "H", "u", "b", " ", "A", "P", "I">>
ErrMsg(body) == ErrHead \o <<"\n">> \o body

ErrBodies == { <<"x", "\n", "y">> }

Failure(data) == { [ok |-> FALSE, err |-> ErrMsg(b), data |-> data] : b \in ErrBodies }
Success(data) == [ok |-> TRUE, err |-> <<>>, data |-> data]

\* Repository metadata
MetaPlain == [t |-> "dict", stargazers_count |-> IntV(12), forks_count |-> IntV(3),
              subscribers_count |-> IntV(4), open_issues_count |-> IntV(1), size |-> IntV(100),
              html_url |-> Str(<<"u">>), default_branch |-> Str(<<"m">>),
              pushed_at |-> Str(<<"1">>), updated_at |-> Str(<<"2">>),
              created_at |-> Str(<<"0">>), language |-> Str(<<"C">>)]
MetaOdd == [t |-> "dict", stargazers_count |-> IntV(-5), forks_count |-> IntV(2100000000),
            subscribers_count |-> NoneV, open_issues_count |-> TextV, size |-> IntV(0),
            html_url |-> Str(<<"u", "\n", "v">>), default_branch |-> NoText,
            pushed_at |-> Str(LongText(LangLen + 1)), updated_at |-> Str(<<"\r", "\n">>),
            created_at |-> Str(<<>>), language |-> Str(<<"\n">> \o LongText(LangLen))]
MetaNotDict == [t |-> "list", stargazers_count |-> NoneV, forks_count |-> NoneV,
                subscribers_count |-> NoneV, open_issues_count |-> NoneV, size |-> NoneV,
                html_url |-> NoText, default_branch |-> NoText, pushed_at |-> NoText,
                updated_at |-> NoText, created_at |-> NoText, language |-> NoText]
MetaDefault == Success(MetaPlain)
MetaResponses == {MetaDefault, Success(MetaOdd), Success(MetaNotDict)} \cup Failure(MetaNotDict)

\* Commits: the decoded body (a list of n items, or not a list) and the Link
\* header given as its comma-separated entries [rel, page]; page = -1 is an
\* entry without a page parameter.
LinkEntry(rel, pg) == [rel |-> rel, page |-> pg]
CommitsData(isList, n, link) == [isList |-> isList, n |-> n, link |-> link]
CommitsDefault ==
    Success(CommitsData(TRUE, 1, <<LinkEntry("next", 2), LinkEntry("last", 57)>>))
CommitsResponses ==
    { CommitsDefault,
      Success(CommitsData(TRUE, 1, <<LinkEntry("last", -1), LinkEntry("last", 2100000000)>>)),
      Success(CommitsData(TRUE, 1, <<LinkEntry("next", 2)>>)),
      Success(CommitsData(FALSE, 0, <<LinkEntry("last", 9)>>)) }
    \cup Failure(CommitsData(FALSE, 0, <<>>))

NoPage == -1

RECURSIVE parse_link_last_page(_)
parse_link_last_page(link) ==
    IF link = <<>> THEN NoPage
    ELSE IF Head(link).rel = "last" /\ Head(link).page # NoPage THEN Head(link).page
    ELSE parse_link_last_page(Tail(link))

\* Languages
LangsDict == [t |-> "dict", bytes |-> 1234]
LangsEmpty == [t |-> "dict", bytes |-> 0]
LangsNotDict == [t |-> "list", bytes |-> 0]
LangsDefault == Success(LangsDict)
LangsResponses == {LangsDefault, Success(LangsNotDict)} \cup Failure(LangsEmpty)

\* Releases.  A release is a dict with its "assets" value: a list of assets
\* (each the download_count of a dict asset, or NonDictV), None, or a number.
Assets(t, items) == [t |-> t, items |-> items]
RelPlain == [assets |-> Assets("list", <<IntV(5), IntV(7)>>),
             tag_name |-> Str(<<"v", "1">>), name |-> Str(<<"r">>), published_at |-> Str(<<"3">>)]
RelBig == [assets |-> Assets("list", <<IntV(2100000000), NonDictV, IntV(1), TextV, IntV(-3)>>),
           tag_name |-> Str(LongText(TagLen) \o <<"\n">>), name |-> Str(<<"a", "\r", "b">>),
           published_at |-> Str(<<"\n">>)]
RelNoAssets == [assets |-> Assets("none", <<>>),
                tag_name |-> NoText, name |-> NoText, published_at |-> NoText]
RelBadAssets == [assets |-> Assets("int", <<>>),
                 tag_name |-> NoText, name |-> NoText, published_at |-> NoText]

\* A page of the releases listing: not a list, or a list of n entries whose
\* dict entries are dicts (the other entries are not dicts).
Chunk(isList, n, dicts) == [isList |-> isList, n |-> n, dicts |-> dicts]

\* How many releases the repository holds: the ordinary single release,
\* none, a page and a half, and more than the loop ever reads.
RelTotalDefault == 1
RelTotals == {RelTotalDefault, 0, PerPage + 50, PerPage * MaxPages + PerPage}

\* The dict entries of a page of n > 0 entries
PageDictsDefault == <<RelPlain>>
PageDicts == {PageDictsDefault, <<RelBig, RelNoAssets>>, <<RelBadAssets>>, <<>>}

\* Traffic.  views/clones answer a dict {count, uniques, series}; series is
\* the list of daily entries (each the count of a dict entry, or NonDictV),
\* <<>> when it is absent, empty or not a list.  referrers/paths answer a list.
TrafficData(t, count, uniques, series) ==
    [t |-> t, count |-> count, uniques |-> uniques, series |-> series]
SeriesPlain == TrafficData("dict", IntV(10), IntV(4), <<IntV(6), IntV(4)>>)
SeriesZero == TrafficData("dict", IntV(0), IntV(0), <<IntV(2100000000), NonDictV, IntV(1)>>)
SeriesBare == TrafficData("dict", IntV(-2), TextV, <<>>)
TrafficList == TrafficData("list", NoneV, NoneV, <<>>)
endpoints == <<"views", "clones", "referrers", "paths">>
KeyStr(key) ==
    CASE key = "views" -> <<"v", "i", "e", "w", "s">>
      [] key = "clones" -> <<"c", "l", "o", "n", "e", "s">>
      [] key = "referrers" -> <<"r", "e", "f", "e", "r", "r", "e", "r", "s">>
      [] key = "paths" -> <<"p", "a", "t", "h", "s">>
TrafficDefault(key) ==
    IF key \in {"views", "clones"} THEN Success(SeriesPlain) ELSE Success(TrafficList)
TrafficResponses(key) ==
    {TrafficDefault(key)}
    \cup (CASE key = "views" -> {Success(SeriesZero), Success(TrafficList)}
            [] key = "clones" -> {Success(SeriesZero), Success(SeriesBare)}
            [] OTHER -> {})
    \cup Failure(TrafficList)

\* str(e) of the TypeError / AttributeError the interpreter raises on a
\* non-iterable "assets" value and on a metadata response that is no dict
TypeErrorMsg == <<"n", "o", "t", " ", "i", "t", "e", "r", "a", "b", "l", "e">>
AttributeErrorMsg == <<"n", "o", " ", "a", "t", "t", "r", "i", "b", "u", "t", "e", " ", "'", "g", "e", "t", "'">>

----------------------------------------------------------------------------
(* Record assembly, blocks.py:296-358 *)

RECURSIVE SumClamped(_)
\* sum of the clamped counts of the dict entries of a list
SumClamped(items) ==
    IF items = <<>> THEN 0
    ELSE (IF Head(items).t = "nondict" THEN 0 ELSE clamp_int(Head(items), 0, ClampHi, 0))
         + SumClamped(Tail(items))

\* assets = rel.get("assets") or []
AssetsOf(rel) == IF rel.assets.t = "list" THEN rel.assets.items ELSE <<>>

\* iterating a number raises TypeError (blocks.py:301)
AssetsRaise(rels) == \E i \in 1..Len(rels) : rels[i].assets.t = "int"

PerRelease(rels) ==
    [i \in 1..Len(rels) |->
        [tag |-> SafeOrEmpty(rels[i].tag_name, TagLen),
         name |-> SafeOrEmpty(rels[i].name, UrlLen),
         published_at |-> SafeOrEmpty(rels[i].published_at, StampLen),
         assets_count |-> Len(AssetsOf(rels[i])),
         assets_downloads |-> SumClamped(AssetsOf(rels[i]))]]

RECURSIVE TotalDownloads(_)
TotalDownloads(per) ==
    IF per = <<>> THEN 0 ELSE Head(per).assets_downloads + TotalDownloads(Tail(per))

\* _traffic_total_from_series trusting the reported count alone
traffic_total_from_series_CountOnly(resp) ==
    IF resp.t # "dict" THEN 0 ELSE clamp_int(resp.count, 0, ClampHi, 0)

traffic_total_from_series(resp) ==
    IF resp.t # "dict" THEN 0
    ELSE LET base == clamp_int(resp.count, 0, ClampHi, 0)
         IN  IF resp.series # <<>> THEN Max(base, SumClamped(resp.series)) ELSE base

\* TrafficTotal giving 0 unless every traffic call succeeded
TrafficTotal_Complete(tr, key) ==
    IF DOMAIN tr # {"views", "clones", "referrers", "paths"} THEN 0
    ELSE traffic_total_from_series(tr[key])

\* _traffic_total_from_series(traffic.get(key), key) if traffic else 0
TrafficTotal(tr, key) ==
    IF DOMAIN tr = {} THEN 0
    ELSE IF key \notin DOMAIN tr THEN 0
    ELSE traffic_total_from_series(tr[key])

\* "\n".join(errs).strip()
TrafficErr(er) == Strip(Join(<<"\n">>, er))

NoTraffic == [k \in {} |-> TrafficList]

Record(rels, tr, terr) ==
    LET per == PerRelease(rels)
    IN  [repo |-> full,
         html_url |-> SafeOrEmpty(repo.html_url, UrlLen),
         default_branch |-> SafeOrEmpty(repo.default_branch, TagLen),
         pushed_at |-> SafeOrEmpty(repo.pushed_at, StampLen),
         updated_at |-> SafeOrEmpty(repo.updated_at, StampLen),
         created_at |-> SafeOrEmpty(repo.created_at, StampLen),
         commits_total |-> commits_total,
         commits_error |-> commits_err,
         views_14d_total |-> TrafficTotal(tr, "views"),
         clones_14d_total |-> TrafficTotal(tr, "clones"),
         stars |-> clamp_int(repo.stargazers_count, 0, ClampHi, 0),
         forks |-> clamp_int(repo.forks_count, 0, ClampHi, 0),
         watchers |-> clamp_int(repo.subscribers_count, 0, ClampHi, 0),
         open_issues |-> clamp_int(repo.open_issues_count, 0, ClampHi, 0),
         size_kb |-> clamp_int(repo.size, 0, ClampHi, 0),
         language |-> SafeOrEmpty(repo.language, LangLen),
         languages |-> IF langs.t = "dict" THEN langs ELSE LangsEmpty,
         releases_count |-> Len(rels),
         release_asset_downloads_total |-> TotalDownloads(per),
         releases |-> per,
         traffic |-> tr,
         traffic_error |-> terr]

----------------------------------------------------------------------------
(* GitHubFetchBlock.execute, blocks.py:232-365 *)

\* An entry of the call history: input entry, endpoint, page, whether the call
\* succeeded, and the number of entries of the list it returned (0 if none)
Call(e, kind, pg, ok, size) == [e |-> e, kind |-> kind, page |-> pg, ok |-> ok, size |-> size]

\* dev' after a response that is (cost = 0) or is not (cost > 0) the ordinary one
Spend(cost) == dev + cost <= budget /\ dev' = dev + cost
Cost(r, default) == IF r = default THEN 0 ELSE 1

\* The locals of one loop iteration are dead once the iteration ends
ResetLocals ==
    /\ full' = <<>>
    /\ repo' = MetaNotDict
    /\ commits_total' = 0
    /\ commits_err' = <<>>
    /\ langs' = LangsEmpty
    /\ releases' = <<>>
    /\ page' = 1
    /\ traffic' = NoTraffic
    /\ errs' = <<>>
    /\ tkey' = 1
    /\ relLeft' = 0

\* SlugFails leaving the loop instead of going on with the next entry
SlugFails_Break(name, msg) ==
    /\ out_errors' = Append(out_errors, [repo |-> name, error |-> safe_str(msg, SlugErrLen)])
    /\ UNCHANGED <<out_repos, meta_count>>
    /\ idx' = idx + 1
    /\ pc' = "done"
    /\ ResetLocals

\* except Exception as e (blocks.py:362-363), then the next entry
SlugFails(name, msg) ==
    /\ out_errors' = Append(out_errors, [repo |-> name, error |-> safe_str(msg, SlugErrLen)])
    /\ UNCHANGED <<out_repos, meta_count>>
    /\ idx' = idx + 1
    /\ pc' = "loop"
    /\ ResetLocals

\* out["repos"].append({...}); meta["count"] += 1 (blocks.py:331-360); the
\* record's repo.get(...) raises AttributeError when the metadata is no dict
Assemble(rels, tr, terr) ==
    IF repo.t # "dict"
    THEN SlugFails(full, AttributeErrorMsg)
    ELSE /\ out_repos' = Append(out_repos, Record(rels, tr, terr))
         /\ meta_count' = meta_count + 1
         /\ UNCHANGED out_errors
         /\ idx' = idx + 1
         /\ pc' = "loop"
         /\ ResetLocals

Inputs == <<params_token, payload_token, env_token, repos_in>>

\* What execute() never writes
Fixed == <<Inputs, budget, aggVars, pipeVars, guiVars, cliVars>>

Start ==
    /\ pc = "start"
    /\ token' = ResolveToken(params_token, payload_token, env_token)
    /\ pc' = "loop"
    /\ UNCHANGED <<Fixed, idx, full, repo, commits_total, commits_err, langs, releases,
                   page, traffic, errs, tkey, out_repos, out_errors, meta_count, calls,
                   relLeft, dev>>

Return ==
    /\ pc = "loop"
    /\ idx > Len(repos_in)
    /\ pc' = "done"
    /\ UNCHANGED <<Fixed, token, idx, full, repo, commits_total, commits_err, langs,
                   releases, page, traffic, errs, tkey, out_repos, out_errors, meta_count,
                   calls, relLeft, dev>>

\* SkipInvalid without the append to out["errors"]
SkipInvalid_Silent ==
    /\ pc = "loop"
    /\ idx <= Len(repos_in)
    /\ ~ parse_repo_slug(repos_in[idx]).ok
    /\ idx' = idx + 1
    /\ UNCHANGED <<Fixed, token, pc, full, repo, commits_total, commits_err, langs,
                   releases, page, traffic, errs, tkey, out_repos, out_errors, meta_count,
                   calls, relLeft, dev>>

\* blocks.py:247-250
SkipInvalid ==
    /\ pc = "loop"
    /\ idx <= Len(repos_in)
    /\ ~ parse_repo_slug(repos_in[idx]).ok
    /\ out_errors' = Append(out_errors, [repo |-> repos_in[idx], error |-> InvalidSlugMsg])
    /\ idx' = idx + 1
    /\ UNCHANGED <<Fixed, token, pc, full, repo, commits_total, commits_err, langs,
                   releases, page, traffic, errs, tkey, out_repos, meta_count, calls,
                   relLeft, dev>>

\* blocks.py:251-256
Metadata ==
    /\ pc = "loop"
    /\ idx <= Len(repos_in)
    /\ LET slug == parse_repo_slug(repos_in[idx])
       IN  /\ slug.ok
           /\ \E r \in MetaResponses :
                /\ Spend(Cost(r, MetaDefault))
                /\ calls' = Append(calls, Call(idx, "meta", 0, r.ok, 0))
                /\ IF r.ok
                   THEN /\ full' = FullName(slug)
                        /\ repo' = r.data
                        /\ pc' = "commits"
                        /\ UNCHANGED <<idx, commits_total, commits_err, langs, releases,
                                       page, traffic, errs, tkey, out_repos, out_errors,
                                       meta_count, relLeft>>
                   ELSE SlugFails(FullName(slug), r.err)
    /\ UNCHANGED <<Fixed, token>>

\* Commits with a failure that leaves commits_err empty
Commits_DropsError ==
    /\ pc = "commits"
    /\ \E r \in CommitsResponses :
         /\ Spend(Cost(r, CommitsDefault))
         /\ calls' = Append(calls, Call(idx, "commits", 0, r.ok, 0))
         /\ IF r.ok
            THEN /\ commits_total' =
                       IF r.data.isList
                       THEN LET last_page == parse_link_last_page(r.data.link)
                            IN  IF last_page # NoPage THEN last_page ELSE r.data.n
                       ELSE 0
                 /\ commits_err' = <<>>
            ELSE /\ commits_total' = 0
                 /\ commits_err' = <<>>
    /\ pc' = "langs"
    /\ UNCHANGED <<Fixed, token, idx, full, repo, langs, releases, page, traffic, errs,
                   tkey, out_repos, out_errors, meta_count, relLeft>>

\* blocks.py:259-273
Commits ==
    /\ pc = "commits"
    /\ \E r \in CommitsResponses :
         /\ Spend(Cost(r, CommitsDefault))
         /\ calls' = Append(calls, Call(idx, "commits", 0, r.ok, 0))
         /\ IF r.ok
            THEN /\ commits_total' =
                       IF r.data.isList
                       THEN LET last_page == parse_link_last_page(r.data.link)
                            IN  IF last_page # NoPage THEN last_page ELSE r.data.n
                       ELSE 0
                 /\ commits_err' = <<>>
            ELSE /\ commits_total' = 0
                 /\ commits_err' = safe_str(r.err, CommitsErrLen)
    /\ pc' = "langs"
    /\ UNCHANGED <<Fixed, token, idx, full, repo, langs, releases, page, traffic, errs,
                   tkey, out_repos, out_errors, meta_count, relLeft>>

\* Languages repeating a failed call
Languages_Retry ==
    /\ pc = "langs"
    /\ \E r \in LangsResponses :
         /\ Spend(Cost(r, LangsDefault))
         /\ calls' = Append(calls, Call(idx, "langs", 0, r.ok, 0))
         /\ langs' = IF r.ok THEN r.data ELSE LangsEmpty
         /\ pc' = IF r.ok THEN "releases" ELSE "langs"
    /\ releases' = <<>>
    /\ page' = 1
    /\ UNCHANGED <<Fixed, token, idx, full, repo, commits_total, commits_err, traffic,
                   errs, tkey, out_repos, out_errors, meta_count, relLeft>>

\* blocks.py:275-283
Languages ==
    /\ pc = "langs"
    /\ \E r \in LangsResponses :
         /\ Spend(Cost(r, LangsDefault))
         /\ calls' = Append(calls, Call(idx, "langs", 0, r.ok, 0))
         /\ langs' = IF r.ok THEN r.data ELSE LangsEmpty
    /\ releases' = <<>>
    /\ page' = 1
    /\ pc' = "releases"
    /\ UNCHANGED <<Fixed, token, idx, full, repo, commits_total, commits_err, traffic,
                   errs, tkey, out_repos, out_errors, meta_count, relLeft>>

\* The answers the API can give to the request for page pg when left
\* releases remain to be listed.  Pages after the first hold the ordinary
\* release only, which keeps every sum of download counts below 2^31.
ReleasesDefault(left) ==
    LET n == Min(PerPage, left)
    IN  Success(Chunk(TRUE, n, IF n = 0 THEN <<>> ELSE PageDictsDefault))
ReleasesResponses(left, pg) ==
    LET n == Min(PerPage, left)
        dicts == IF n = 0 THEN {<<>>} ELSE IF pg = 1 THEN PageDicts ELSE {PageDictsDefault}
    IN  { Success(Chunk(TRUE, n, d)) : d \in dicts }
        \cup { Success(Chunk(FALSE, 0, <<>>)) }
        \cup Failure(Chunk(FALSE, 0, <<>>))

\* AfterReleases entering the traffic step whatever the token
AfterReleases_AlwaysTraffic(rels) ==
    IF AssetsRaise(rels)
    THEN SlugFails(full, TypeErrorMsg)
    ELSE /\ releases' = rels
         /\ traffic' = NoTraffic
         /\ errs' = <<>>
         /\ tkey' = 1
         /\ relLeft' = 0
         /\ pc' = "traffic"
         /\ UNCHANGED <<idx, full, repo, commits_total, commits_err, langs, page,
                        out_repos, out_errors, meta_count>>

\* blocks.py:296-316: the per-release sums, then the traffic step or the record
AfterReleases(rels) ==
    IF AssetsRaise(rels)
    THEN SlugFails(full, TypeErrorMsg)
    ELSE IF token # <<>>
         THEN /\ releases' = rels
              /\ traffic' = NoTraffic
              /\ errs' = <<>>
              /\ tkey' = 1
              /\ relLeft' = 0
              /\ pc' = "traffic"
              /\ UNCHANGED <<idx, full, repo, commits_total, commits_err, langs, page,
                             out_repos, out_errors, meta_count>>
         ELSE Assemble(rels, NoTraffic, <<>>)

\* ReleasesPage without the page ceiling
ReleasesPage_NoCeiling ==
    /\ pc = "releases"
    /\ \E left \in (IF page = 1 THEN RelTotals ELSE {relLeft}) :
       \E r \in ReleasesResponses(left, page) :
         /\ Spend((IF page = 1 /\ left # RelTotalDefault THEN 1 ELSE 0)
                  + Cost(r, ReleasesDefault(left)))
         /\ calls' = Append(calls, Call(idx, "releases", page, r.ok,
                                         IF r.ok /\ r.data.isList THEN r.data.n ELSE 0))
         /\ IF ~ r.ok
            THEN SlugFails(full, r.err)
            ELSE IF ~ r.data.isList \/ r.data.n = 0
            THEN AfterReleases(releases)
            ELSE LET rels == releases \o r.data.dicts
                 IN  IF r.data.n < PerPage
                     THEN AfterReleases(rels)
                     ELSE /\ releases' = rels
                          /\ page' = page + 1
                          /\ relLeft' = left - r.data.n
                          /\ UNCHANGED <<idx, full, repo, commits_total, commits_err,
                                         langs, traffic, errs, tkey, out_repos,
                                         out_errors, meta_count, pc>>
    /\ UNCHANGED <<Fixed, token>>

\* One iteration of the releases loop, blocks.py:284-294
ReleasesPage ==
    /\ pc = "releases"
    /\ \E left \in (IF page = 1 THEN RelTotals ELSE {relLeft}) :
       \E r \in ReleasesResponses(left, page) :
         /\ Spend((IF page = 1 /\ left # RelTotalDefault THEN 1 ELSE 0)
                  + Cost(r, ReleasesDefault(left)))
         /\ calls' = Append(calls, Call(idx, "releases", page, r.ok,
                                         IF r.ok /\ r.data.isList THEN r.data.n ELSE 0))
         /\ IF ~ r.ok
            THEN SlugFails(full, r.err)
            ELSE IF ~ r.data.isList \/ r.data.n = 0
            THEN AfterReleases(releases)
            ELSE LET rels == releases \o r.data.dicts
                 IN  IF r.data.n < PerPage \/ page + 1 > MaxPages
                     THEN AfterReleases(rels)
                     ELSE /\ releases' = rels
                          /\ page' = page + 1
                          /\ relLeft' = left - r.data.n
                          /\ UNCHANGED <<idx, full, repo, commits_total, commits_err,
                                         langs, traffic, errs, tkey, out_repos,
                                         out_errors, meta_count, pc>>
    /\ UNCHANGED <<Fixed, token>>

\* Traffic giving up the remaining endpoints after a failed call
Traffic_StopsOnFailure ==
    /\ pc = "traffic"
    /\ LET key == endpoints[tkey]
       IN  \E r \in TrafficResponses(key) :
             /\ Spend(Cost(r, TrafficDefault(key)))
             /\ calls' = Append(calls, Call(idx, key, 0, r.ok, 0))
             /\ LET tr == IF r.ok
                          THEN [k \in DOMAIN traffic \cup {key} |->
                                   IF k = key THEN r.data ELSE traffic[k]]
                          ELSE traffic
                    er == IF r.ok
                          THEN errs
                          ELSE Append(errs, KeyStr(key) \o <<":", " ">>
                                            \o safe_str(r.err, TrafficErrLen))
                IN  IF tkey < Len(endpoints) /\ r.ok
                    THEN /\ traffic' = tr
                         /\ errs' = er
                         /\ tkey' = tkey + 1
                         /\ UNCHANGED <<idx, full, repo, commits_total, commits_err,
                                        langs, releases, page, out_repos, out_errors,
                                        meta_count, pc, relLeft>>
                    ELSE Assemble(releases, tr, TrafficErr(er))
    /\ UNCHANGED <<Fixed, token>>

\* One iteration of the endpoints loop, blocks.py:324-329; after the last
\* endpoint the record is assembled
Traffic ==
    /\ pc = "traffic"
    /\ LET key == endpoints[tkey]
       IN  \E r \in TrafficResponses(key) :
             /\ Spend(Cost(r, TrafficDefault(key)))
             /\ calls' = Append(calls, Call(idx, key, 0, r.ok, 0))
             /\ LET tr == IF r.ok
                          THEN [k \in DOMAIN traffic \cup {key} |->
                                   IF k = key THEN r.data ELSE traffic[k]]
                          ELSE traffic
                    er == IF r.ok
                          THEN errs
                          ELSE Append(errs, KeyStr(key) \o <<":", " ">>
                                            \o safe_str(r.err, TrafficErrLen))
                IN  IF tkey < Len(endpoints)
                    THEN /\ traffic' = tr
                         /\ errs' = er
                         /\ tkey' = tkey + 1
                         /\ UNCHANGED <<idx, full, repo, commits_total, commits_err,
                                        langs, releases, page, out_repos, out_errors,
                                        meta_count, pc, relLeft>>
                    ELSE Assemble(releases, tr, TrafficErr(er))
    /\ UNCHANGED <<Fixed, token>>

----------------------------------------------------------------------------
(* GitHubAggregateBlock.execute, blocks.py:376-413 *)

\* Python integers have no upper end: a total is kept as hi * BigBase + lo
BigBase == 1000000000
Big(hi, lo) == [hi |-> hi, lo |-> lo]
BigZero == Big(0, 0)

\* b + n, for 0 <= n <= ClampHi
BigAdd(b, n) ==
    LET lo == b.lo + (n % BigBase)
    IN  Big(b.hi + (n \div BigBase) + (lo \div BigBase), lo % BigBase)

\* A views/clones block of a record's traffic, or a value that is no dict
Counts(count, uniques) == [t |-> "dict", count |-> count, uniques |-> uniques]
NoCounts == [t |-> "none", count |-> NoneV, uniques |-> NoneV]

\* The traffic value of a record: a dict, or a value that is no dict
TrafficBlock(views, clones) == [t |-> "dict", views |-> views, clones |-> clones]
NoTrafficBlock == [t |-> "none", views |-> NoCounts, clones |-> NoCounts]

\* Entries of payload["repos"]: a record as github_fetch stores it, a dict of
\* malformed values, a dict without the keys, and an entry that is no dict
EntryPlain ==
    [t |-> "dict", stars |-> IntV(12), forks |-> IntV(3), watchers |-> IntV(4),
     open_issues |-> IntV(1), release_asset_downloads_total |-> IntV(12),
     commits_total |-> IntV(57), views_14d_total |-> IntV(10), clones_14d_total |-> IntV(10),
     traffic |-> TrafficBlock(Counts(IntV(10), IntV(4)), Counts(IntV(10), IntV(4)))]
EntryOdd ==
    [t |-> "dict", stars |-> IntV(-5), forks |-> IntV(2100000000), watchers |-> NoneV,
     open_issues |-> TextV, release_asset_downloads_total |-> IntV(ClampHi),
     commits_total |-> IntV(2100000000), views_14d_total |-> IntV(ClampHi + 1),
     clones_14d_total |-> IntV(0),
     traffic |-> TrafficBlock(Counts(IntV(2100000000), IntV(-1)), NoCounts)]
EntryBare ==
    [t |-> "dict", stars |-> NoneV, forks |-> NoneV, watchers |-> NoneV,
     open_issues |-> NoneV, release_asset_downloads_total |-> NoneV,
     commits_total |-> NoneV, views_14d_total |-> IntV(7), clones_14d_total |-> IntV(9),
     traffic |-> NoTrafficBlock]
EntryNotDict ==
    [t |-> "str", stars |-> IntV(1), forks |-> IntV(1), watchers |-> IntV(1),
     open_issues |-> IntV(1), release_asset_downloads_total |-> IntV(1),
     commits_total |-> IntV(1), views_14d_total |-> IntV(1), clones_14d_total |-> IntV(1),
     traffic |-> TrafficBlock(Counts(IntV(1), IntV(1)), Counts(IntV(1), IntV(1)))]
Entries == {EntryPlain, EntryOdd, EntryBare, EntryNotDict}

\* The value under "repos": a list, or None
ListV(items) == [t |-> "list", items |-> items]
NoList == [t |-> "none", items |-> <<>>]

\* A payload is a dict, given as the function from its keys to their values,
\* or a value that is no dict
NotADict == [nondict |-> TRUE]
EmptyDict == [k \in {} |-> NoList]
IsDict(p) == "nondict" \notin DOMAIN p

\* payload.get("repos") or []
ReposOf(p) == IF "repos" \in DOMAIN p /\ p["repos"].t = "list" THEN p["repos"].items ELSE <<>>

ZeroTotals ==
    [repos |-> 0, stars |-> BigZero, forks |-> BigZero, watchers |-> BigZero,
     open_issues |-> BigZero, release_asset_downloads_total |-> BigZero,
     views_14d_total |-> BigZero, views_14d_unique |-> BigZero,
     clones_14d_total |-> BigZero, clones_14d_unique |-> BigZero,
     commits_total |-> BigZero]

\* blocks.py:397-401 and 410
AddCounters(totals, r) ==
    [totals EXCEPT
        !.stars = BigAdd(@, clamp_int(r.stars, 0, ClampHi, 0)),
        !.forks = BigAdd(@, clamp_int(r.forks, 0, ClampHi, 0)),
        !.watchers = BigAdd(@, clamp_int(r.watchers, 0, ClampHi, 0)),
        !.open_issues = BigAdd(@, clamp_int(r.open_issues, 0, ClampHi, 0)),
        !.release_asset_downloads_total =
            BigAdd(@, clamp_int(r.release_asset_downloads_total, 0, ClampHi, 0)),
        !.commits_total = BigAdd(@, clamp_int(r.commits_total, 0, ClampHi, 0))]

\* AddTraffic reading the record's own views_14d_total / clones_14d_total
AddTraffic_TopLevel(totals, r) ==
    LET block == IF r.traffic.t = "dict" THEN r.traffic ELSE NoTrafficBlock
        views == IF block.views.t = "dict" THEN block.views ELSE NoCounts
        clones == IF block.clones.t = "dict" THEN block.clones ELSE NoCounts
    IN  [totals EXCEPT
            !.views_14d_total = BigAdd(@, clamp_int(r.views_14d_total, 0, ClampHi, 0)),
            !.views_14d_unique = BigAdd(@, clamp_int(views.uniques, 0, ClampHi, 0)),
            !.clones_14d_total = BigAdd(@, clamp_int(r.clones_14d_total, 0, ClampHi, 0)),
            !.clones_14d_unique = BigAdd(@, clamp_int(clones.uniques, 0, ClampHi, 0))]

\* blocks.py:403-409
AddTraffic(totals, r) ==
    LET block == IF r.traffic.t = "dict" THEN r.traffic ELSE NoTrafficBlock
        views == IF block.views.t = "dict" THEN block.views ELSE NoCounts
        clones == IF block.clones.t = "dict" THEN block.clones ELSE NoCounts
    IN  [totals EXCEPT
            !.views_14d_total = BigAdd(@, clamp_int(views.count, 0, ClampHi, 0)),
            !.views_14d_unique = BigAdd(@, clamp_int(views.uniques, 0, ClampHi, 0)),
            !.clones_14d_total = BigAdd(@, clamp_int(clones.count, 0, ClampHi, 0)),
            !.clones_14d_unique = BigAdd(@, clamp_int(clones.uniques, 0, ClampHi, 0))]

\* Tally counting the entries that are no dicts as well
Tally_CountsAll(totals, r) ==
    IF r.t # "dict" THEN [totals EXCEPT !.repos = @ + 1]
    ELSE AddTraffic(AddCounters([totals EXCEPT !.repos = @ + 1], r), r)

\* the body of the loop, blocks.py:393-410
Tally(totals, r) ==
    IF r.t # "dict" THEN totals
    ELSE AddTraffic(AddCounters([totals EXCEPT !.repos = @ + 1], r), r)

RECURSIVE TallyAll(_, _)
\* for r in repos (blocks.py:393)
TallyAll(totals, repos) ==
    IF repos = <<>> THEN totals ELSE TallyAll(Tally(totals, Head(repos)), Tail(repos))

\* payload with payload["totals"] = totals
WithTotals(p, totals) ==
    [k \in DOMAIN p \cup {"totals"} |-> IF k = "totals" THEN totals ELSE p[k]]

\* github_aggregate adding to the totals the payload already holds
github_aggregate_Accumulates(p0) ==
    LET p == IF IsDict(p0) THEN p0 ELSE EmptyDict
        start == IF "totals" \in DOMAIN p THEN p["totals"] ELSE ZeroTotals
    IN  [out |-> WithTotals(p, TallyAll(start, ReposOf(p))), meta |-> [ok |-> TRUE]]

\* execute(payload): the payload returned and the metadata
github_aggregate(p0) ==
    LET p == IF IsDict(p0) THEN p0 ELSE EmptyDict
    IN  [out |-> WithTotals(p, TallyAll(ZeroTotals, ReposOf(p))), meta |-> [ok |-> TRUE]]

NoMeta == [ok |-> FALSE]

\* No payload has been given to github_aggregate
AggIdle ==
    /\ payload = NotADict
    /\ agg_meta = NoMeta
    /\ agg_n = 0
    /\ agg_edits = 0

----------------------------------------------------------------------------
(* Registry (blocks.py:99-110), run_block (gui.py:25-28) and Pipeline.run  *)
(* (pipeline.py:15-26)                                                     *)

\* Block names, and block classes: two whose execute returns and BaseBlock,
\* whose execute raises NotImplementedError
Names == {"x", "y"}
Classes == {"A", "B", "BaseBlock"}
NoBlocks == [n \in {} |-> "A"]

\* What a call gives: a value returned or an exception raised
Returned(v) == [ok |-> TRUE, err |-> "none", val |-> v]
Raised(e) == [ok |-> FALSE, err |-> e, val |-> "none"]

\* self._blocks[name] = cls
Registry_register(bs, name, cls) ==
    [n \in DOMAIN bs \cup {name} |-> IF n = name THEN cls ELSE bs[n]]

\* Registry.get answering a class for every name
Registry_get_Default(bs, name) ==
    IF name \in DOMAIN bs THEN Returned(bs[name]) ELSE Returned("A")

\* return self._blocks[name]: a dict lookup, KeyError for a missing key
Registry_get(bs, name) ==
    IF name \in DOMAIN bs THEN Returned(bs[name]) ELSE Raised("KeyError")

\* return name in self._blocks
Registry_has(bs, name) == name \in DOMAIN bs

\* Payloads of the blocks: the list of the blocks that worked on it
Stamp(by, params) == [by |-> by, params |-> params]
CallerPayload == <<Stamp("caller", "none")>>
NoOutput == <<>>
NoStepMeta == [by |-> "none", seen |-> 0]

\* What the runner answers: (out, meta) or an exception
Answer(ok, err, out, meta) == [ok |-> ok, err |-> err, out |-> out, meta |-> meta]

\* blk_cls().execute(payload, params=params)
Execute(cls, p, params) ==
    IF cls = "BaseBlock" THEN Answer(FALSE, "NotImplementedError", NoOutput, NoStepMeta)
    ELSE Answer(TRUE, "none", Append(p, Stamp(cls, params)), [by |-> cls, seen |-> Len(p)])

\* gui.py:25-28
run_block(bs, name, p, params) ==
    LET got == Registry_get(bs, name)
    IN  IF got.ok THEN Execute(got.val, p, params)
        ELSE Answer(FALSE, got.err, NoOutput, NoStepMeta)

\* BlockInstance(name, params)
BlockInstance(name, params) == [name |-> name, params |-> params]
Instances == {BlockInstance("x", "p1"), BlockInstance("y", "p1"), BlockInstance("x", "p2")}

\* True / False as a returned value
Bool(b) == IF b THEN "True" ELSE "False"

\* The outcome of a registry call, and how many register calls came before it
NoResult ==
    [op |-> "none", name |-> "none", ok |-> TRUE, err |-> "none", val |-> "none", at |-> 0]
Outcome(op, name, r) ==
    [op |-> op, name |-> name, ok |-> r.ok, err |-> r.err, val |-> r.val,
     at |-> Len(registered)]

\* An entry of the runner history
RunnerCall(bi, p, a) ==
    [name |-> bi.name, params |-> bi.params, payload |-> p, ok |-> a.ok, err |-> a.err,
     out |-> a.out, meta |-> a.meta]

\* BLOCKS.register(name, cls), as the block decorator does on import
Register ==
    /\ pl_pc = "idle"
    /\ Len(registered) < MaxRegs
    /\ \E name \in Names : \E cls \in Classes :
         /\ blocks' = Registry_register(blocks, name, cls)
         /\ registered' = Append(registered, [name |-> name, cls |-> cls])
    /\ UNCHANGED <<cliVars, fetchVars, aggVars, guiVars, reg_result, pl_steps, pl_payload, pl_pc,
                   pl_i, cur, meta_all, runner_calls, raised>>

\* BLOCKS.get(name)
GetBlock ==
    /\ pl_pc = "idle"
    /\ \E name \in Names : reg_result' = Outcome("get", name, Registry_get(blocks, name))
    /\ UNCHANGED <<cliVars, fetchVars, aggVars, guiVars, blocks, registered, pl_steps, pl_payload,
                   pl_pc, pl_i, cur, meta_all, runner_calls, raised>>

\* BLOCKS.has(name)
HasBlock ==
    /\ pl_pc = "idle"
    /\ \E name \in Names :
         reg_result' = Outcome("has", name, Returned(Bool(Registry_has(blocks, name))))
    /\ UNCHANGED <<cliVars, fetchVars, aggVars, guiVars, blocks, registered, pl_steps, pl_payload,
                   pl_pc, pl_i, cur, meta_all, runner_calls, raised>>

\* Pipeline.run(payload, run_block), pipeline.py:20-21
RunPipeline ==
    /\ pl_pc = "idle"
    /\ pl_pc' = "running"
    /\ pl_i' = 1
    /\ cur' = pl_payload
    /\ meta_all' = <<>>
    /\ UNCHANGED <<cliVars, fetchVars, aggVars, guiVars, blocks, registered, reg_result, pl_steps,
                   pl_payload, runner_calls, raised>>

\* PipelineStep handing every step the payload Pipeline.run was given
PipelineStep_FromInitial ==
    /\ pl_pc = "running"
    /\ pl_i <= Len(pl_steps)
    /\ LET bi == pl_steps[pl_i]
           a == run_block(blocks, bi.name, pl_payload, bi.params)
       IN  /\ runner_calls' = Append(runner_calls, RunnerCall(bi, pl_payload, a))
           /\ reg_result' = Outcome("get", bi.name, Registry_get(blocks, bi.name))
           /\ IF a.ok
              THEN /\ meta_all' = Append(meta_all, [block |-> bi.name, meta |-> a.meta])
                   /\ cur' = a.out
                   /\ pl_i' = pl_i + 1
                   /\ UNCHANGED <<pl_pc, raised>>
              ELSE /\ pl_pc' = "raised"
                   /\ raised' = a.err
                   /\ UNCHANGED <<meta_all, cur, pl_i>>
    /\ UNCHANGED <<cliVars, fetchVars, aggVars, guiVars, blocks, registered, pl_steps, pl_payload>>

\* One turn of the loop, pipeline.py:22-25; an exception of the runner leaves run
PipelineStep ==
    /\ pl_pc = "running"
    /\ pl_i <= Len(pl_steps)
    /\ LET bi == pl_steps[pl_i]
           a == run_block(blocks, bi.name, cur, bi.params)
       IN  /\ runner_calls' = Append(runner_calls, RunnerCall(bi, cur, a))
           /\ reg_result' = Outcome("get", bi.name, Registry_get(blocks, bi.name))
           /\ IF a.ok
              THEN /\ meta_all' = Append(meta_all, [block |-> bi.name, meta |-> a.meta])
                   /\ cur' = a.out
                   /\ pl_i' = pl_i + 1
                   /\ UNCHANGED <<pl_pc, raised>>
              ELSE /\ pl_pc' = "raised"
                   /\ raised' = a.err
                   /\ UNCHANGED <<meta_all, cur, pl_i>>
    /\ UNCHANGED <<cliVars, fetchVars, aggVars, guiVars, blocks, registered, pl_steps, pl_payload>>

\* return cur, meta_all (pipeline.py:26)
PipelineReturn ==
    /\ pl_pc = "running"
    /\ pl_i > Len(pl_steps)
    /\ pl_pc' = "returned"
    /\ UNCHANGED <<cliVars, fetchVars, aggVars, guiVars, blocks, registered, reg_result, pl_steps,
                   pl_payload, pl_i, cur, meta_all, runner_calls, raised>>

\* An empty registry and no pipeline
PipeIdle ==
    /\ blocks = NoBlocks
    /\ registered = <<>>
    /\ reg_result = NoResult
    /\ pl_steps = <<>>
    /\ pl_payload = CallerPayload
    /\ pl_pc = "idle"
    /\ pl_i = 1
    /\ cur = NoOutput
    /\ meta_all = <<>>
    /\ runner_calls = <<>>
    /\ raised = "none"

----------------------------------------------------------------------------
(* MainWindow: config and presets, gui.py:280-363 and 416-571 *)

\* Preset names and repo lines are texts given as their character codes, so
\* that they can be ordered: " " is 32, "A".."Z" are 65..90, "a".."z" 97..122
WhitespaceCodes == {9, 10, 13, 32}

\* str.strip()
StripCodes(s) == StripChars(s, WhitespaceCodes)

\* str.lower()
Lower(s) == [i \in 1..Len(s) |-> IF s[i] >= 65 /\ s[i] <= 90 THEN s[i] + 32 ELSE s[i]]

RECURSIVE LexLess(_, _)
\* a < b of two str
LexLess(a, b) ==
    IF b = <<>> THEN FALSE
    ELSE IF a = <<>> THEN TRUE
    ELSE IF Head(a) # Head(b) THEN Head(a) < Head(b)
    ELSE LexLess(Tail(a), Tail(b))

\* sorted(keys)[0]
SortedFirst(keys) == CHOOSE k \in keys : \A j \in keys : j = k \/ LexLess(k, j)

RECURSIVE SortedByLower(_)
\* sorted(keys, key=lambda s: s.lower()), for keys that differ in lower case
SortedByLower(keys) ==
    IF keys = {} THEN <<>>
    ELSE LET k == CHOOSE k \in keys : \A j \in keys \ {k} : LexLess(Lower(k), Lower(j))
         IN  <<k>> \o SortedByLower(keys \ {k})

\* dict operations
Put(d, k, v) == [x \in DOMAIN d \cup {k} |-> IF x = k THEN v ELSE d[x]]
Pop(d, k) == [x \in DOMAIN d \ {k} |-> d[x]]

\* "Default", and the names "a", " a", "B", "c" of the model
DEFAULT_PRESET_NAME == <<68, 101, 102, 97, 117, 108, 116>>
NameA == <<97>>
NamePadA == <<32, 97>>
NameB == <<66>>
NameC == <<99>>

\* default_repos: four slugs, given by the first letter of the project
default_repos == << <<77>>, <<71>>, <<65>>, <<86>> >>

\* Repo lines "r", " r", "q" and the empty line
LineR == <<114>>
LinePadR == <<32, 114>>
LineQ == <<113>>
LineEmpty == <<>>

\* [str(x).strip() for x in v if str(x).strip()]
Sanitize(items) ==
    SelectSeq([i \in 1..Len(items) |-> StripCodes(items[i])], LAMBDA x : x # <<>>)

\* The content of a config file: a JSON object with its keys, or anything else
\* (a missing file, invalid JSON, a list).  presets is an object given as the
\* function from its keys to their values, or no object; a value is a list
\* or not
PresetsV(map) == [t |-> "dict", map |-> map]
NoPresets == [t |-> "none", map |-> [k \in {} |-> NoList]]
File(presets, active, tok, remember) ==
    [t |-> "dict", presets |-> presets, active_preset |-> active, token |-> tok,
     remember_token |-> remember]
NoFile == [t |-> "none", presets |-> NoPresets, active_preset |-> NoText,
           token |-> NoText, remember_token |-> FALSE]

\* active as _load_cfg leaves it, without the check against presets
NormalActive_Unchecked(active, presets) ==
    IF active.t # "str"
    THEN (IF DEFAULT_PRESET_NAME \in DOMAIN presets THEN DEFAULT_PRESET_NAME
          ELSE SortedFirst(DOMAIN presets))
    ELSE active.s

\* gui.py:305-307
NormalActive(active, presets) ==
    IF active.t # "str" \/ active.s \notin DOMAIN presets
    THEN (IF DEFAULT_PRESET_NAME \in DOMAIN presets THEN DEFAULT_PRESET_NAME
          ELSE SortedFirst(DOMAIN presets))
    ELSE active.s

\* {DEFAULT_PRESET_NAME: default_repos}
DefaultPresets == [k \in {DEFAULT_PRESET_NAME} |-> default_repos]

\* _load_cfg() of a file with that content
load_cfg(file) ==
    LET c == IF file.t = "dict" THEN file ELSE NoFile
        raw == c.presets
        clean == [k \in {k \in DOMAIN raw.map : k # <<>> /\ raw.map[k].t = "list"}
                    |-> Sanitize(raw.map[k].items)]
        presets == IF raw.t # "dict" \/ DOMAIN raw.map = {} THEN DefaultPresets
                   ELSE IF DOMAIN clean = {} THEN DefaultPresets
                   ELSE clean
        active == NormalActive(c.active_preset, presets)
    IN  [token |-> IF c.token.t = "str" THEN c.token.s ELSE <<>>,
         remember_token |-> c.remember_token,
         presets |-> presets,
         active_preset |-> active,
         repos |-> IF active \in DOMAIN presets THEN presets[active] ELSE default_repos]

\* save_cfg writing the config as it is
save_cfg_AsIs(c) == c

\* self.cfg as _save_cfg leaves and writes it
save_cfg(c) ==
    IF c.active_preset # <<>> /\ c.active_preset \in DOMAIN c.presets
    THEN [c EXCEPT !.repos = c.presets[c.active_preset]]
    ELSE c

\* config.json: as it was found, or as _save_cfg wrote it
Found(file) == [written |-> FALSE, file |-> file, cfg |-> load_cfg(NoFile)]
Written(c) == [written |-> TRUE, file |-> NoFile, cfg |-> c]

\* _current_repos_from_ui()
current_repos_from_ui(lines) ==
    SelectSeq([i \in 1..Len(lines) |-> StripCodes(lines[i])], LAMBDA x : x # <<>>)

\* findText(text): the 1-based index of the item, 0 for none
FindText(items, text) ==
    IF \E i \in 1..Len(items) : items[i] = text
    THEN CHOOSE i \in 1..Len(items) : items[i] = text /\ \A j \in 1..(i - 1) : items[j] # text
    ELSE 0

\* The current index after _refresh_preset_combo(): that of the active
\* preset, else the first item the cleared combo was given
RefreshedIndex(c) ==
    LET items == SortedByLower(DOMAIN c.presets)
        found == FindText(items, c.active_preset)
    IN  IF found > 0 THEN found ELSE IF items = <<>> THEN 0 ELSE 1

\* _selected_preset_name()
selected_preset_name(items, index) == IF index = 0 THEN <<>> ELSE StripCodes(items[index])

\* self.cfg after _ui_to_cfg_settings_only()
ui_to_cfg_settings_only(c, tok, remember) ==
    [c EXCEPT !.remember_token = remember,
              !.token = IF remember THEN Strip(tok) ELSE <<>>]

\* What a dialog gives back: (text, ok) of QInputDialog.getText, and the
\* button of QMessageBox.question
Typed(ok, text) == [ok |-> ok, text |-> text]
TypedNames ==
    {Typed(FALSE, <<>>), Typed(TRUE, <<32>>), Typed(TRUE, <<32, 99, 32>>), Typed(TRUE, NameA)}
Buttons == {"Yes", "No"}

\* Texts the user leaves in repos_edit
EditorTexts == {<<>>, <<LinePadR>>, <<LineQ, LineEmpty>>}

\* An entry of the handler history
Handler(op, answer) == [op |-> op, answer |-> answer]

\* A handler has run
Ran(op, answer) ==
    /\ gui_ops < MaxOps
    /\ gui_ops' = gui_ops + 1
    /\ gui_last' = Handler(op, answer)

\* self._save_cfg()
SaveCfg(c) ==
    /\ cfg' = save_cfg(c)
    /\ disk' = Written(save_cfg(c))

\* self._refresh_preset_combo()
RefreshPresetCombo(c) ==
    /\ combo_items' = SortedByLower(DOMAIN c.presets)
    /\ combo_index' = RefreshedIndex(c)

\* The user picks an item of preset_combo
SelectPreset ==
    /\ \E i \in 1..Len(combo_items) : i # combo_index /\ combo_index' = i
    /\ UNCHANGED <<cliVars, fetchVars, aggVars, pipeVars, cfg, disk, combo_items, editor,
                   token_edit, remember_cb, gui_ops, gui_last>>

\* The user rewrites repos_edit
EditRepos ==
    /\ \E t \in EditorTexts : t # editor /\ editor' = t
    /\ UNCHANGED <<cliVars, fetchVars, aggVars, pipeVars, cfg, disk, combo_items, combo_index,
                   token_edit, remember_cb, gui_ops, gui_last>>

\* on_apply_preset applied to the config c and the selection (items, index):
\* the config and the editor it leaves, and whether it saved
ApplyPreset(c, items, index, lines) ==
    LET name == selected_preset_name(items, index)
    IN  IF name \notin DOMAIN c.presets
        THEN [saved |-> FALSE, cfg |-> c, editor |-> lines]
        ELSE [saved |-> TRUE,
              cfg |-> save_cfg([c EXCEPT !.active_preset = name]),
              editor |-> c.presets[name]]

\* gui.py:419-428
OnApplyPreset ==
    /\ Ran("apply", "none")
    /\ LET a == ApplyPreset(cfg, combo_items, combo_index, editor)
       IN  /\ cfg' = a.cfg
           /\ editor' = a.editor
           /\ disk' = IF a.saved THEN Written(a.cfg) ELSE disk
    /\ UNCHANGED <<cliVars, fetchVars, aggVars, pipeVars, combo_items, combo_index, token_edit,
                   remember_cb>>

\* gui.py:430-461
OnSaveAsPreset ==
    \E typed \in TypedNames : \E button \in Buttons :
        /\ Ran("save_as", button)
        /\ LET repos == current_repos_from_ui(editor)
               name == StripCodes(typed.text)
           IN  IF \/ repos = <<>>
                  \/ ~ typed.ok
                  \/ name = <<>>
                  \/ (name \in DOMAIN cfg.presets /\ button # "Yes")
               THEN UNCHANGED <<cfg, disk, combo_items, combo_index>>
               ELSE LET c == ui_to_cfg_settings_only(
                                 [cfg EXCEPT !.presets = Put(@, name, repos),
                                             !.active_preset = name],
                                 token_edit, remember_cb)
                    IN  SaveCfg(c) /\ RefreshPresetCombo(save_cfg(c))
        /\ UNCHANGED <<cliVars, fetchVars, aggVars, pipeVars, editor, token_edit, remember_cb>>

\* gui.py:463-482
OnUpdatePreset ==
    /\ Ran("update", "none")
    /\ LET name == selected_preset_name(combo_items, combo_index)
           repos == current_repos_from_ui(editor)
       IN  IF name = <<>> \/ repos = <<>> \/ name \notin DOMAIN cfg.presets
           THEN UNCHANGED <<cfg, disk>>
           ELSE SaveCfg(ui_to_cfg_settings_only(
                            [cfg EXCEPT !.presets = Put(@, name, repos),
                                        !.active_preset = name],
                            token_edit, remember_cb))
    /\ UNCHANGED <<cliVars, fetchVars, aggVars, pipeVars, combo_items, combo_index, editor,
                   token_edit, remember_cb>>

\* gui.py:484-508
OnRenamePreset ==
    \E typed \in TypedNames :
        /\ Ran("rename", "none")
        /\ LET old == selected_preset_name(combo_items, combo_index)
               new == StripCodes(typed.text)
           IN  IF \/ old = <<>>
                  \/ old \notin DOMAIN cfg.presets
                  \/ ~ typed.ok
                  \/ new = <<>>
                  \/ new = old
                  \/ new \in DOMAIN cfg.presets
               THEN UNCHANGED <<cfg, disk, combo_items, combo_index>>
               ELSE LET c == [cfg EXCEPT
                                 !.presets = Put(Pop(@, old), new, cfg.presets[old]),
                                 !.active_preset = IF @ = old THEN new ELSE @]
                    IN  SaveCfg(c) /\ RefreshPresetCombo(save_cfg(c))
        /\ UNCHANGED <<cliVars, fetchVars, aggVars, pipeVars, editor, token_edit, remember_cb>>

\* gui.py:510-542: the preset is removed, the combo is filled again and
\* on_apply_preset() runs on what the combo then selects
OnDeletePreset ==
    \E button \in Buttons :
        /\ Ran("delete", button)
        /\ LET name == selected_preset_name(combo_items, combo_index)
           IN  IF \/ name = <<>>
                  \/ name \notin DOMAIN cfg.presets
                  \/ Cardinality(DOMAIN cfg.presets) <= 1
                  \/ button # "Yes"
               THEN UNCHANGED <<cfg, disk, combo_items, combo_index, editor>>
               ELSE LET left == Pop(cfg.presets, name)
                        c == save_cfg([cfg EXCEPT
                                 !.presets = left,
                                 !.active_preset = IF @ = name THEN SortedFirst(DOMAIN left)
                                                   ELSE @])
                        a == ApplyPreset(c, SortedByLower(DOMAIN left), RefreshedIndex(c),
                                         editor)
                    IN  /\ RefreshPresetCombo(c)
                        /\ cfg' = a.cfg
                        /\ editor' = a.editor
                        /\ disk' = Written(a.cfg)
        /\ UNCHANGED <<cliVars, fetchVars, aggVars, pipeVars, token_edit, remember_cb>>

\* gui.py:546-555
OnSaveCfg ==
    /\ Ran("save", "none")
    /\ LET c == IF cfg.active_preset # <<>>
                THEN [cfg EXCEPT !.presets = Put(@, cfg.active_preset,
                                                 current_repos_from_ui(editor))]
                ELSE cfg
       IN  SaveCfg(ui_to_cfg_settings_only(c, token_edit, remember_cb))
    /\ UNCHANGED <<cliVars, fetchVars, aggVars, pipeVars, combo_items, combo_index, editor,
                   token_edit, remember_cb>>

\* The widgets after _load_cfg_to_ui() for the config c (gui.py:344-357)
LoadCfgToUi(c) ==
    /\ RefreshPresetCombo(c)
    /\ token_edit' = (IF Strip(OrEmpty(env_token)) # <<>> THEN Strip(OrEmpty(env_token))
                      ELSE c.token)
    /\ remember_cb' = c.remember_token
    /\ editor' = (IF c.active_preset \in DOMAIN c.presets THEN c.presets[c.active_preset]
                  ELSE <<>>)

\* The config files of the model: no usable file; two presets; names that
\* differ by a leading blank, lines to be stripped and a stored token; an
\* empty name and a value that is no list, with an unknown active preset;
\* no active preset; a padded name beside the active one; presets that is
\* no object
Files ==
    { NoFile,
      File(PresetsV(NameA :> ListV(<<LineR>>) @@ NameB :> ListV(<<LineQ>>)),
           Str(NameB), NoText, FALSE),
      File(PresetsV(NamePadA :> ListV(<<LineR>>) @@ NameA :> ListV(<<LinePadR, LineEmpty>>)
                    @@ NameB :> ListV(<<LineQ>>)),
           Str(NamePadA), Str(<<"t">>), TRUE),
      File(PresetsV(LineEmpty :> ListV(<<LineR>>) @@ NameB :> NoList),
           Str(NameC), NoText, FALSE),
      File(PresetsV(NameA :> ListV(<<LineR>>) @@ NameB :> ListV(<<>>)),
           NoText, Str(<<"t">>), FALSE),
      File(PresetsV(NamePadA :> ListV(<<LineR>>) @@ NameB :> ListV(<<LineQ>>)),
           Str(NameB), NoText, FALSE),
      File(NoPresets, Str(NameA), NoText, FALSE) }

\* gui.py:557-571; an empty path leaves the handler at once
OnLoadCfg ==
    \E chosen \in Files : \E path \in BOOLEAN :
        /\ Ran("load", "none")
        /\ IF ~ path
           THEN UNCHANGED <<cfg, disk, combo_items, combo_index, editor, token_edit,
                            remember_cb>>
           ELSE LET c == save_cfg(load_cfg(chosen))
                IN  /\ cfg' = c
                    /\ disk' = Written(c)
                    /\ LoadCfgToUi(c)
    /\ UNCHANGED <<cliVars, fetchVars, aggVars, pipeVars>>

\* MainWindow.__init__ over the config file found (gui.py:111 and 275)
GuiStarted(file) ==
    LET c == load_cfg(file)
    IN  /\ cfg = c
        /\ disk = Found(file)
        /\ combo_items = SortedByLower(DOMAIN c.presets)
        /\ combo_index = RefreshedIndex(c)
        /\ editor = (IF c.active_preset \in DOMAIN c.presets
                     THEN c.presets[c.active_preset] ELSE <<>>)
        /\ token_edit = c.token
        /\ remember_cb = c.remember_token
        /\ gui_ops = 0
        /\ gui_last = Handler("none", "none")

\* No window
GuiIdle == GuiStarted(NoFile)

----------------------------------------------------------------------------
(* main() and run_cli(), main.py:14-48 *)

\* The exit status of the process: none while it runs
Exit(code) == [exited |-> TRUE, code |-> code]
NoExit == [exited |-> FALSE, code |-> 0]

\* A line of standard output
Line(kind, totals) == [kind |-> kind, totals |-> totals]

\* analytics_cli.json: absent, or the document save_json wrote
NoReport == [written |-> FALSE, totals |-> ZeroTotals, repos |-> <<>>, errors |-> <<>>]
Report(totals, repos, errors) ==
    [written |-> TRUE, totals |-> totals, repos |-> repos, errors |-> errors]

\* argparse's namespace: --cli, --repos, --token
Args(cli, repos, tk) == [cli |-> cli, repos |-> repos, token |-> tk]

\* What load_json(config.json, default={}) returns: a dict, given by the
\* value under "repos" (NoList when the key is absent or null), or a JSON
\* value that is no dict
ConfigDict(repos) == [t |-> "dict", repos |-> repos]
ConfigNotDict == [t |-> "list", repos |-> NoList]
NumberV == [t |-> "int", items |-> <<>>]

\* main.py:38-42: the repos of the command line, else those of config.json;
\* cfg.get raises AttributeError on a value that is no dict, and iterating a
\* number raises TypeError
ResolveRepos(a, file) ==
    IF a.repos # <<>> THEN [raised |-> FALSE, repos |-> a.repos]
    ELSE IF file.t # "dict" THEN [raised |-> TRUE, repos |-> <<>>]
    ELSE IF file.repos.t = "none" THEN [raised |-> FALSE, repos |-> <<>>]
    ELSE IF file.repos.t # "list" THEN [raised |-> TRUE, repos |-> <<>>]
    ELSE [raised |-> FALSE,
          repos |-> LET kept == SelectSeq(file.repos.items,
                                          LAMBDA x : x.t = "str" /\ x.s # <<>>)
                    IN  [i \in 1..Len(kept) |-> kept[i].s]]

\* main.py:37
CliToken(a, env) ==
    LET fromArgs == Strip(a.token)
    IN  IF fromArgs # <<>> THEN fromArgs ELSE Strip(OrEmpty(env))

\* traffic.get(key) of a stored record as github_aggregate reads it
CountsOf(tr, key) ==
    IF key \in DOMAIN tr /\ tr[key].t = "dict"
    THEN Counts(tr[key].count, tr[key].uniques)
    ELSE NoCounts

\* A record of github_fetch as an entry of the payload of github_aggregate
AsEntry(r) ==
    [t |-> "dict", stars |-> IntV(r.stars), forks |-> IntV(r.forks),
     watchers |-> IntV(r.watchers), open_issues |-> IntV(r.open_issues),
     release_asset_downloads_total |-> IntV(r.release_asset_downloads_total),
     commits_total |-> IntV(r.commits_total),
     views_14d_total |-> IntV(r.views_14d_total),
     clones_14d_total |-> IntV(r.clones_14d_total),
     traffic |-> TrafficBlock(CountsOf(r.traffic, "views"), CountsOf(r.traffic, "clones"))]

\* out of GitHubFetchBlock.execute (blocks.py:242 and 365)
FetchOutput(recs, errors) ==
    [generated_at |-> 1700000000,
     repos |-> ListV([i \in 1..Len(recs) |-> AsEntry(recs[i])]),
     errors |-> errors]

\* if not args.cli: run_gui(); return 0 (main.py:33-35)
MainGui ==
    /\ cli_pc = "main"
    /\ ~ args.cli
    /\ window' = TRUE
    /\ exit_code' = Exit(0)
    /\ cli_pc' = "exited"
    /\ UNCHANGED <<fetchVars, aggVars, pipeVars, guiVars, args, cli_config, stdout, report>>

\* An exception leaves main(): the interpreter prints the traceback to
\* standard error and exits with status 1
MainRaises ==
    /\ cli_pc = "main"
    /\ args.cli
    /\ ResolveRepos(args, cli_config).raised
    /\ exit_code' = Exit(1)
    /\ cli_pc' = "exited"
    /\ UNCHANGED <<fetchVars, aggVars, pipeVars, guiVars, args, cli_config, stdout, report,
                   window>>

\* main.py:44-46
MainNoRepos ==
    /\ cli_pc = "main"
    /\ args.cli
    /\ ~ ResolveRepos(args, cli_config).raised
    /\ ResolveRepos(args, cli_config).repos = <<>>
    /\ stdout' = Append(stdout, Line("no repos", ZeroTotals))
    /\ exit_code' = Exit(2)
    /\ cli_pc' = "exited"
    /\ UNCHANGED <<fetchVars, aggVars, pipeVars, guiVars, args, cli_config, report, window>>

\* main.py:48 and 15-16: run_cli builds the payload and github_fetch starts
MainRunCli ==
    /\ cli_pc = "main"
    /\ args.cli
    /\ ~ ResolveRepos(args, cli_config).raised
    /\ ResolveRepos(args, cli_config).repos # <<>>
    /\ repos_in' = ResolveRepos(args, cli_config).repos
    /\ payload_token' = Tok(CliToken(args, env_token))
    /\ params_token' = NoToken
    /\ pc' = "start"
    /\ cli_pc' = "fetch"
    /\ UNCHANGED <<aggVars, pipeVars, guiVars, args, cli_config, exit_code, stdout, report,
                   window, env_token, budget, token, idx, full, repo, commits_total,
                   commits_err, langs, releases, page, traffic, errs, tkey, out_repos,
                   out_errors, meta_count, calls, relLeft, dev>>

\* main.py:17-23, once github_fetch has returned
RunCliAggregate ==
    /\ cli_pc = "fetch"
    /\ pc = "done"
    /\ payload' = github_aggregate(FetchOutput(out_repos, out_errors)).out
    /\ agg_meta' = github_aggregate(FetchOutput(out_repos, out_errors)).meta
    /\ agg_n' = agg_n + 1
    /\ stdout' = stdout \o <<Line("totals", payload'["totals"]), Line("saved", ZeroTotals)>>
    /\ report' = Report(payload'["totals"], out_repos, out_errors)
    /\ exit_code' = Exit(0)
    /\ cli_pc' = "exited"
    /\ UNCHANGED <<fetchVars, pipeVars, guiVars, agg_edits, args, cli_config, window>>

\* main() has not been called
CliStarted(a, file) ==
    /\ args = a
    /\ cli_config = file
    /\ cli_pc = "main"
    /\ exit_code = NoExit
    /\ stdout = <<>>
    /\ report = NoReport
    /\ window = FALSE

\* The program was not started from the command line
CliIdle ==
    /\ args = Args(FALSE, <<>>, <<>>)
    /\ cli_config = ConfigDict(NoList)
    /\ cli_pc = "idle"
    /\ exit_code = NoExit
    /\ stdout = <<>>
    /\ report = NoReport
    /\ window = FALSE

----------------------------------------------------------------------------
(* Specifications *)

SeqsUpTo(S, n) == UNION { [1..k -> S] : k \in 0..n }

\* The variables of execute() before its first statement, with pc at `at'
FetchAt(PT, PL, EN, RS, b, at) ==
    /\ params_token \in PT
    /\ payload_token \in PL
    /\ env_token \in EN
    /\ repos_in \in RS
    /\ budget = b
    /\ token = <<>>
    /\ pc = at
    /\ idx = 1
    /\ full = <<>>
    /\ repo = MetaNotDict
    /\ commits_total = 0
    /\ commits_err = <<>>
    /\ langs = LangsEmpty
    /\ releases = <<>>
    /\ page = 1
    /\ traffic = NoTraffic
    /\ errs = <<>>
    /\ tkey = 1
    /\ out_repos = <<>>
    /\ out_errors = <<>>
    /\ meta_count = 0
    /\ calls = <<>>
    /\ relLeft = 0
    /\ dev = 0

InitFetch(PT, PL, EN, RS, b) == FetchAt(PT, PL, EN, RS, b, "start")

\* No fetch has been asked for
FetchIdle == InitFetch({NoToken}, {NoToken}, {NoToken}, {<<>>}, 0)

\* A fetch, with nothing else going on
InitFrom(PT, PL, EN, RS, b) ==
    InitFetch(PT, PL, EN, RS, b) /\ AggIdle /\ PipeIdle /\ GuiIdle /\ CliIdle

InitWith(PT, PL, EN, n) == InitFrom(PT, PL, EN, SeqsUpTo(RawInputs, n), MaxDeviations)

\* A fetch of up to MaxRepos entries, with and without a token
Init == InitWith({NoToken}, {NoToken, Tok(<<" ", "q">>)}, {NoToken}, MaxRepos)

Next ==
    \/ Start
    \/ Return
    \/ SkipInvalid
    \/ Metadata
    \/ Commits
    \/ Languages
    \/ ReleasesPage
    \/ Traffic

Spec == Init /\ [][Next]_vars

\* Input entries with line breaks in them: a slug with an embedded newline,
\* an ordinary slug and an entry that strips to nothing
TextInputs == { <<"a", "\n", "b", "/", "c">>, <<"a", "/", "b">>, <<"\n">> }

\* A fetch with a token of at most one such entry, against an API that may
\* give one non-default response more
InitText ==
    InitFrom({Tok(<<"t">>)}, {NoToken}, {NoToken}, SeqsUpTo(TextInputs, 1), MaxDeviations + 1)

SpecText == InitText /\ [][Next]_vars

\* The payloads github_aggregate is given: dicts with a list of up to
\* MaxAggRepos entries under "repos", with None there, without the key, with
\* totals of an earlier run over other entries, and a payload that is no dict
StaleTotals == [ZeroTotals EXCEPT !.repos = 9, !.stars = Big(1, 5)]
Payloads ==
    { [generated_at |-> 1700000000, repos |-> ListV(rs), errors |-> <<>>]
        : rs \in SeqsUpTo(Entries, MaxAggRepos) }
    \cup { [generated_at |-> 1700000000, repos |-> ListV(<<e>>), errors |-> <<"e">>,
            totals |-> StaleTotals] : e \in Entries }
    \cup { [generated_at |-> 1700000000, repos |-> NoList, errors |-> <<>>],
           [generated_at |-> 1700000000, errors |-> <<>>],
           NotADict }

InitAgg ==
    /\ payload \in Payloads
    /\ agg_meta = NoMeta
    /\ agg_n = 0
    /\ agg_edits = 0
    /\ FetchIdle
    /\ PipeIdle
    /\ GuiIdle
    /\ CliIdle

\* payload, meta = GitHubAggregateBlock().execute(payload)
Aggregate ==
    /\ agg_n < MaxRuns
    /\ payload' = github_aggregate(payload).out
    /\ agg_meta' = github_aggregate(payload).meta
    /\ agg_n' = agg_n + 1
    /\ UNCHANGED <<cliVars, fetchVars, pipeVars, guiVars, agg_edits>>

\* Between two runs, other code overwrites the views_14d_total or
\* clones_14d_total of a record
Retouch ==
    /\ agg_edits < MaxEdits
    /\ 1 <= agg_n /\ agg_n < MaxRuns
    /\ IsDict(payload)
    /\ \E i \in 1..Len(ReposOf(payload)) : \E v \in {IntV(5)} :
         /\ ReposOf(payload)[i].t = "dict"
         /\ \/ /\ ReposOf(payload)[i].views_14d_total # v
               /\ payload' = [payload EXCEPT !["repos"].items[i].views_14d_total = v]
            \/ /\ ReposOf(payload)[i].clones_14d_total # v
               /\ payload' = [payload EXCEPT !["repos"].items[i].clones_14d_total = v]
    /\ agg_edits' = agg_edits + 1
    /\ UNCHANGED <<cliVars, fetchVars, pipeVars, guiVars, agg_meta, agg_n>>

NextAgg ==
    \/ Aggregate
    \/ Retouch

SpecAgg == InitAgg /\ [][NextAgg]_vars

\* A pipeline of up to MaxSteps steps over a registry that starts empty
InitPipe ==
    /\ blocks = NoBlocks
    /\ registered = <<>>
    /\ reg_result = NoResult
    /\ pl_steps \in SeqsUpTo(Instances, MaxSteps)
    /\ pl_payload = CallerPayload
    /\ pl_pc = "idle"
    /\ pl_i = 1
    /\ cur = NoOutput
    /\ meta_all = <<>>
    /\ runner_calls = <<>>
    /\ raised = "none"
    /\ FetchIdle
    /\ AggIdle
    /\ GuiIdle
    /\ CliIdle

NextPipe ==
    \/ Register
    \/ GetBlock
    \/ HasBlock
    \/ RunPipeline
    \/ PipelineStep
    \/ PipelineReturn

SpecPipe == InitPipe /\ [][NextPipe]_vars

\* The window opened over any of the config files, then up to MaxOps handlers
InitGui ==
    /\ \E file \in Files : GuiStarted(file)
    /\ FetchIdle
    /\ AggIdle
    /\ PipeIdle
    /\ CliIdle

NextGui ==
    \/ SelectPreset
    \/ EditRepos
    \/ OnApplyPreset
    \/ OnSaveAsPreset
    \/ OnUpdatePreset
    \/ OnRenamePreset
    \/ OnDeletePreset
    \/ OnSaveCfg
    \/ OnLoadCfg

SpecGui == InitGui /\ [][NextGui]_vars

\* The command lines: with and without --cli, up to MaxRepos entries after
\* --repos (a slug and an entry that is none), with and without --token
CliEntries == { <<"a", "/", "b">>, <<"a", "b", " ">> }
CliArgs ==
    { Args(c, rs, tk) : c \in BOOLEAN, rs \in SeqsUpTo(CliEntries, MaxRepos),
                        tk \in {<<>>, <<" ", "q">>} }

\* config.json as main() may find it: missing, a JSON list, without "repos",
\* with a list of one slug and an empty entry, with an empty list, with a
\* list of empty entries only, and with a number
CliConfigs ==
    { ConfigDict(NoList), ConfigNotDict, ConfigDict(NumberV), ConfigDict(ListV(<<>>)),
      ConfigDict(ListV(<<Str(<<>>), NoText>>)),
      ConfigDict(ListV(<<Str(<<>>), Str(<<"a", "/", "b">>)>>)) }

\* main() called with any of the command lines over any of the config
\* files; the config file matters only without --repos
InitCli ==
    /\ \E a \in CliArgs : \E file \in CliConfigs :
         /\ a.repos # <<>> => file \in {ConfigDict(NoList), ConfigNotDict}
         /\ CliStarted(a, file)
    /\ FetchAt({NoToken}, {NoToken}, {NoToken}, {<<>>}, MaxDeviations, "idle")
    /\ AggIdle
    /\ PipeIdle
    /\ GuiIdle

NextCli ==
    \/ MainGui
    \/ MainRaises
    \/ MainNoRepos
    \/ MainRunCli
    \/ Start
    \/ Return
    \/ SkipInvalid
    \/ Metadata
    \/ Commits
    \/ Languages
    \/ ReleasesPage
    \/ Traffic
    \/ RunCliAggregate

SpecCli == InitCli /\ [][NextCli]_vars

\* The token sources in every combination, for a fetch of at most one entry
TokenValues == { NoToken, Tok(<<>>), Tok(<<" ">>), Tok(<<"t">>), Tok(<<" ", "t", "\n">>) }
InitToken ==
    InitWith(TokenValues,
             { [some |-> v.some, s |-> [i \in 1..Len(v.s) |-> IF v.s[i] = "t" THEN "q" ELSE v.s[i]]]
               : v \in TokenValues },
             { [some |-> v.some, s |-> [i \in 1..Len(v.s) |-> IF v.s[i] = "t" THEN "e" ELSE v.s[i]]]
               : v \in TokenValues },
             1)

SpecToken == InitToken /\ [][Next]_vars

----------------------------------------------------------------------------
(* Vocabulary of the properties *)

Last(s) == s[Len(s)]

\* The entries of repos_in whose iteration has ended
Processed == 1..(idx - 1)

\* The name under which entry i is reported: the slug, or the raw string
SlugOf == [r \in RawInputs |-> parse_repo_slug(r)]
EntryName(i) ==
    IF SlugOf[repos_in[i]].ok THEN FullName(SlugOf[repos_in[i]]) ELSE repos_in[i]

CallsOf(cs, e) == SelectSeq(cs, LAMBDA c : c.e = e)
Called(cs, e, kind) == \E k \in 1..Len(cs) : cs[k].e = e /\ cs[k].kind = kind
Failed(cs, e, kind) == \E k \in 1..Len(cs) : cs[k].e = e /\ cs[k].kind = kind /\ ~ cs[k].ok
TrafficKeys == {"views", "clones", "referrers", "paths"}

\* This step issues a call
IssuesCall == Len(calls') = Len(calls) + 1
\* This step stores a record
StoresRecord == Len(out_repos') = Len(out_repos) + 1

----------------------------------------------------------------------------
\* C1: every input entry whose iteration has ended has contributed exactly
\* one entry to exactly one of 'repos' and 'errors' (as many entries carry a
\* name as input entries have it, and the two lists together are as long as
\* the input once the run is done); an entry that fails to parse is in
\* 'errors' under its raw string and never in 'repos'.
C1_ExactlyOneEntryPerInput ==
    /\ Len(out_repos) + Len(out_errors) = idx - 1
    /\ pc = "done" => idx - 1 = Len(repos_in)
    /\ \A i \in Processed :
         Cardinality({j \in Processed : EntryName(j) = EntryName(i)})
           = Cardinality({j \in 1..Len(out_repos) : out_repos[j].repo = EntryName(i)})
             + Cardinality({j \in 1..Len(out_errors) : out_errors[j].repo = EntryName(i)})
    /\ \A i \in Processed :
         ~ SlugOf[repos_in[i]].ok =>
            /\ \E j \in 1..Len(out_errors) :
                  out_errors[j] = [repo |-> repos_in[i], error |-> InvalidSlugMsg]
            /\ \A j \in 1..Len(out_repos) : out_repos[j].repo # repos_in[i]

\* a finished run over a malformed and a well-formed entry: one error, one record
C1_Witness ==
    /\ pc = "done"
    /\ Len(repos_in) = 2
    /\ \E i \in 1..2 : ~ SlugOf[repos_in[i]].ok
    /\ Len(out_repos) = 1
    /\ Len(out_errors) = 1

\* C2: the call failures that put a slug in 'errors' are the failures of
\* metadata calls only: the error entries that carry the message of a failed
\* call are as many as the metadata calls that failed.
C2_OnlyMetadataFailureAborts ==
    Cardinality({j \in 1..Len(out_errors) : IsPrefix(ErrHead, out_errors[j].error)})
      = Cardinality({k \in 1..Len(calls) : calls[k].kind = "meta" /\ ~ calls[k].ok})

\* C3: a failed metadata call is the only call of its entry; the step that
\* makes it appends one {repo, error} entry for the slug, leaves 'repos' and
\* the earlier errors as they were and moves on to the next entry.
C3_MetadataFailureSkipsSlug ==
    /\ [](\A k \in 1..Len(calls) :
            (calls[k].kind = "meta" /\ ~ calls[k].ok) =>
               \A m \in 1..Len(calls) : m # k => calls[m].e # calls[k].e)
    /\ [][(IssuesCall /\ Last(calls').kind = "meta" /\ ~ Last(calls').ok) =>
             /\ Len(out_errors') = Len(out_errors) + 1
             /\ SubSeq(out_errors', 1, Len(out_errors)) = out_errors
             /\ Last(out_errors').repo = EntryName(idx)
             /\ out_repos' = out_repos
             /\ idx' = idx + 1
             /\ pc' = "loop"]_vars

\* the metadata call of the second entry failed after the first entry gave a record
C3_Witness ==
    /\ Len(out_repos) = 1
    /\ Len(out_errors) = 1
    /\ Failed(calls, 2, "meta")
    /\ pc = "done"

\* C4: a failed commits call does not abort its slug: the step leaves the
\* error list alone and goes on to the languages call; every record stored
\* for a slug whose commits call failed has commits_total = 0 and a non-empty
\* commits_error and was stored after the languages, releases and (with a
\* token) traffic calls of the slug; every record stored for a slug whose
\* commits call did not fail has an empty commits_error.
C4_CommitsFailureAbsorbed ==
    [][/\ (IssuesCall /\ Last(calls').kind = "commits" /\ ~ Last(calls').ok) =>
             /\ out_errors' = out_errors
             /\ out_repos' = out_repos
             /\ idx' = idx
             /\ pc' = "langs"
       /\ StoresRecord =>
             LET rec == Last(out_repos')
             IN  IF Failed(calls', idx, "commits")
                 THEN /\ rec.commits_total = 0
                      /\ rec.commits_error # <<>>
                      /\ Called(calls', idx, "langs")
                      /\ Called(calls', idx, "releases")
                      /\ token # <<>> => \A k \in TrafficKeys : Called(calls', idx, k)
                 ELSE rec.commits_error = <<>>]_vars

\* a record of a slug whose commits call failed
C4_Witness ==
    /\ Len(out_repos) = 1
    /\ idx = 2
    /\ Failed(calls, 1, "commits")
    /\ out_repos[1].commits_error # <<>>

\* C5: with a token, every record is stored after exactly one call to each
\* of the four traffic endpoints of its slug; a key is in the record's
\* 'traffic' iff its call succeeded, traffic_error names a key iff its call
\* failed and is empty when none failed; and a slug whose views call was
\* issued has had all four calls issued by the end of its iteration.
C5_TrafficCallsIndependent ==
    /\ [](\A e \in Processed :
            Called(calls, e, "views") => \A k \in TrafficKeys : Called(calls, e, k))
    /\ [][(StoresRecord /\ token # <<>>) =>
             LET rec == Last(out_repos')
             IN  /\ \A k \in TrafficKeys :
                      /\ Len(SelectSeq(calls', LAMBDA c : c.e = idx /\ c.kind = k)) = 1
                      /\ k \in DOMAIN rec.traffic <=> ~ Failed(calls', idx, k)
                      /\ Contains(rec.traffic_error, KeyStr(k) \o <<":", " ">>)
                           <=> Failed(calls', idx, k)
                 /\ (\A k \in TrafficKeys : ~ Failed(calls', idx, k))
                      => rec.traffic_error = <<>>]_vars

\* a record whose views call failed while the three later calls succeeded
C5_Witness ==
    /\ Len(out_repos) = 1
    /\ idx = 2
    /\ Failed(calls, 1, "views")
    /\ DOMAIN out_repos[1].traffic = {"clones", "referrers", "paths"}
    /\ out_repos[1].traffic_error # <<>>

\* C6: with an empty token no traffic endpoint is ever called and every
\* record has an empty 'traffic', an empty traffic_error and zero
\* views_14d_total and clones_14d_total.
C6_NoTokenNoTraffic ==
    token = <<>> =>
       /\ \A k \in 1..Len(calls) : calls[k].kind \notin TrafficKeys
       /\ \A j \in 1..Len(out_repos) :
            /\ DOMAIN out_repos[j].traffic = {}
            /\ out_repos[j].traffic_error = <<>>
            /\ out_repos[j].views_14d_total = 0
            /\ out_repos[j].clones_14d_total = 0

\* a finished token-less run that stored a record
C6_Witness ==
    /\ pc = "done"
    /\ token = <<>>
    /\ Len(out_repos) >= 1

\* C7: the resolved token is the trimmed 'token' parameter whenever the
\* parameter is supplied (even empty); else the trimmed payload token when
\* that is non-empty; else the trimmed GITHUB_TOKEN; else empty.
C7_TokenPrecedence ==
    pc # "start" =>
       /\ params_token.some => token = Strip(params_token.s)
       /\ (~ params_token.some /\ payload_token.some /\ Strip(payload_token.s) # <<>>)
            => token = Strip(payload_token.s)
       /\ (~ params_token.some /\ ~ (payload_token.some /\ Strip(payload_token.s) # <<>>)
             /\ env_token.some)
            => token = Strip(env_token.s)
       /\ (~ params_token.some /\ ~ (payload_token.some /\ Strip(payload_token.s) # <<>>)
             /\ ~ env_token.some)
            => token = <<>>

\* an empty 'token' parameter wins over a payload token and the environment
C7_Witness ==
    /\ pc # "start"
    /\ params_token = Tok(<<>>)
    /\ Strip(payload_token.s) # <<>>
    /\ Strip(env_token.s) # <<>>
    /\ token = <<>>

\* C8: the calls of a run are ordered: the entries they belong to never
\* decrease, the first call of an entry is its metadata call, and every
\* other call directly follows its predecessor in the order metadata,
\* commits, languages, releases page 1, 2, ..., views, clones, referrers,
\* paths (so that no call is issued twice for an entry).
C8_Follows(prev, c) ==
    /\ prev.e = c.e
    /\ CASE c.kind = "commits" -> prev.kind = "meta"
         [] c.kind = "langs" -> prev.kind = "commits"
         [] c.kind = "releases" ->
               IF c.page = 1 THEN prev.kind = "langs"
               ELSE prev.kind = "releases" /\ prev.page = c.page - 1
         [] c.kind = "views" -> prev.kind = "releases"
         [] c.kind = "clones" -> prev.kind = "views"
         [] c.kind = "referrers" -> prev.kind = "clones"
         [] c.kind = "paths" -> prev.kind = "referrers"
         [] OTHER -> FALSE

C8_CallsStrictlyOrdered ==
    \A k \in 1..Len(calls) :
       IF calls[k].kind = "meta"
       THEN k > 1 => calls[k - 1].e < calls[k].e
       ELSE k > 1 /\ C8_Follows(calls[k - 1], calls[k])

\* two entries were fetched in full, the first over two releases pages
C8_Witness ==
    /\ pc = "done"
    /\ \E k \in 1..Len(calls) : calls[k].e = 1 /\ calls[k].kind = "releases" /\ calls[k].page = 2
    /\ Called(calls, 1, "paths")
    /\ Called(calls, 2, "paths")

\* C9: the releases loop requests pages 1, 2, ... of a slug, a page after
\* the first only when the page before it was a list of PerPage entries,
\* and never a page beyond MaxPages.
C9_ReleasesPagingBounded ==
    /\ page <= MaxPages
    /\ \A k \in 1..Len(calls) :
         calls[k].kind = "releases" =>
            /\ calls[k].page \in 1..MaxPages
            /\ calls[k].page > 1 =>
                 /\ calls[k - 1].e = calls[k].e
                 /\ calls[k - 1].kind = "releases"
                 /\ calls[k - 1].page = calls[k].page - 1
                 /\ calls[k - 1].ok
                 /\ calls[k - 1].size >= PerPage

\* the API answered MaxPages full pages and the loop was left
C9_Witness ==
    /\ pc # "releases"
    /\ calls # <<>>
    /\ Last(calls).kind = "releases"
    /\ Last(calls).page = MaxPages
    /\ Last(calls).size = PerPage

\* C10: every numeric counter of every stored record is in 0..ClampHi.
C10_InRange(n) == 0 <= n /\ n <= ClampHi

C10_CountersClamped ==
    \A j \in 1..Len(out_repos) :
       LET r == out_repos[j]
       IN  /\ C10_InRange(r.commits_total)
           /\ C10_InRange(r.stars)
           /\ C10_InRange(r.forks)
           /\ C10_InRange(r.watchers)
           /\ C10_InRange(r.open_issues)
           /\ C10_InRange(r.size_kb)
           /\ C10_InRange(r.release_asset_downloads_total)
           /\ \A i \in 1..Len(r.releases) : C10_InRange(r.releases[i].assets_downloads)
           /\ C10_InRange(r.views_14d_total)
           /\ C10_InRange(r.clones_14d_total)

----------------------------------------------------------------------------
(* C11: every string field of every stored record (repo, html_url,         *)
(* default_branch, pushed_at, updated_at, created_at, language,            *)
(* commits_error, traffic_error, and tag, name, published_at of every      *)
(* release) and every error string of the error list holds no newline and  *)
(* is at most TextBound characters long.                                   *)

TextBound == SlugErrLen

SingleLine(s) == (\A i \in 1..Len(s) : s[i] # "\n") /\ Len(s) <= TextBound

RecordTexts(r) ==
    {r.repo, r.html_url, r.default_branch, r.pushed_at, r.updated_at, r.created_at,
     r.language, r.commits_error, r.traffic_error}
    \cup UNION { {r.releases[k].tag, r.releases[k].name, r.releases[k].published_at}
                 : k \in 1..Len(r.releases) }

C11_StringFieldsSingleLine ==
    /\ \A i \in 1..Len(out_repos) : \A s \in RecordTexts(out_repos[i]) : SingleLine(s)
    /\ \A i \in 1..Len(out_errors) : SingleLine(out_errors[i].error)

----------------------------------------------------------------------------
(* C12: views_14d_total and clones_14d_total of a stored record equal the  *)
(* larger of the reported count and the sum of the daily counts of the     *)
(* series of the corresponding traffic response.                           *)
(*                                                                         *)
(* As worded (the counts taken as reported) this fails on a daily count    *)
(* above 2*10^9: C12_DerivedTotalIsMax.  It holds with every count clamped *)
(* to [0, 2*10^9] before use, entries of the series that are no dicts left *)
(* out, a count that is no number taken as 0, and a total of 0 where the   *)
(* record holds no dict response for the key: C12_DerivedTotalIsClampedMax.*)

TotalField(r, key) == IF key = "views" THEN r.views_14d_total ELSE r.clones_14d_total

\* The response the record holds for the key is a dict
HoldsSeries(r, key) == key \in DOMAIN r.traffic /\ r.traffic[key].t = "dict"

RECURSIVE SumTo(_, _)
SumTo(f, k) == IF k = 0 THEN 0 ELSE f[k] + SumTo(f, k - 1)

\* The daily counts as reported
DailySum(series) ==
    SumTo([i \in 1..Len(series) |-> IF series[i].t = "int" THEN series[i].n ELSE 0],
          Len(series))

\* The daily counts, each brought into [0, 2*10^9]
Bounded(v) == IF v.t # "int" THEN 0 ELSE Min(Max(v.n, 0), ClampHi)
DailySumBounded(series) ==
    SumTo([i \in 1..Len(series) |-> Bounded(series[i])], Len(series))

C12_DerivedTotalIsMax ==
    \A i \in 1..Len(out_repos) : \A key \in {"views", "clones"} :
        LET r == out_repos[i]
        IN  (HoldsSeries(r, key) /\ r.traffic[key].count.t = "int")
            => TotalField(r, key) = Max(r.traffic[key].count.n, DailySum(r.traffic[key].series))

C12_DerivedTotalIsClampedMax ==
    \A i \in 1..Len(out_repos) : \A key \in {"views", "clones"} :
        LET r == out_repos[i]
        IN  IF HoldsSeries(r, key)
            THEN LET c == Bounded(r.traffic[key].count)
                     d == DailySumBounded(r.traffic[key].series)
                 IN  /\ TotalField(r, key) = Max(c, d)
                     /\ c < d => TotalField(r, key) = d
            ELSE TotalField(r, key) = 0

\* a record is stored whose views response reports a count of 0 over daily
\* entries, and whose derived total is the sum of those entries
C12_Witness ==
    \E i \in 1..Len(out_repos) :
        /\ HoldsSeries(out_repos[i], "views")
        /\ out_repos[i].traffic["views"] = SeriesZero
        /\ out_repos[i].views_14d_total = ClampHi + 1

----------------------------------------------------------------------------
(* Vocabulary of the claims about github_aggregate *)

\* The entries of the repo list that are dicts
DictEntries(p) == { i \in 1..Len(ReposOf(p)) : ReposOf(p)[i].t = "dict" }

\* The sum of f[1..k], f[i] in 0..ClampHi, as a total
BigSum(f, k) ==
    LET hi == SumTo([i \in 1..k |-> f[i] \div BigBase], k)
        lo == SumTo([i \in 1..k |-> f[i] % BigBase], k)
    IN  Big(hi + (lo \div BigBase), lo % BigBase)

\* The sum over the dict entries of the field, clamped
FieldSum(p, field) ==
    LET rs == ReposOf(p)
    IN  BigSum([i \in 1..Len(rs) |-> IF i \in DictEntries(p) THEN Bounded(rs[i][field]) ELSE 0],
               Len(rs))

\* The sum over the dict entries of traffic[key][field], clamped, where the
\* record holds a traffic dict with a dict under key
BlockSum(p, key, field) ==
    LET rs == ReposOf(p)
        val(r) == IF r.traffic.t = "dict" /\ r.traffic[key].t = "dict"
                  THEN Bounded(r.traffic[key][field]) ELSE 0
    IN  BigSum([i \in 1..Len(rs) |-> IF i \in DictEntries(p) THEN val(rs[i]) ELSE 0], Len(rs))

CounterFields ==
    {"stars", "forks", "watchers", "open_issues", "release_asset_downloads_total",
     "commits_total"}

----------------------------------------------------------------------------
(* C13: after github_aggregate, totals.repos is the number of dict entries *)
(* of the repo list and each of totals.stars, forks, watchers,             *)
(* open_issues, release_asset_downloads_total and commits_total is the sum *)
(* over those entries of the field clamped to [0, 2*10^9]; entries that    *)
(* are no dicts add nothing; for an empty or missing list every total is 0 *)

C13_TotalsAreClampedSums ==
    agg_n >= 1 =>
        /\ payload["totals"].repos = Cardinality(DictEntries(payload))
        /\ \A f \in CounterFields : payload["totals"][f] = FieldSum(payload, f)
        /\ ReposOf(payload) = <<>> => payload["totals"] = ZeroTotals

\* totals were computed over a list holding an entry that is no dict and a
\* dict entry with a value above the clamp
C13_Witness ==
    /\ agg_n >= 1
    /\ \E i \in 1..Len(ReposOf(payload)) : ReposOf(payload)[i] = EntryNotDict
    /\ \E i \in 1..Len(ReposOf(payload)) : ReposOf(payload)[i] = EntryOdd
    /\ payload["totals"].repos = 1
    /\ payload["totals"].forks = Big(2, 0)

----------------------------------------------------------------------------
(* C14: after github_aggregate, totals.views_14d_total, views_14d_unique,  *)
(* clones_14d_total and clones_14d_unique are the sums of the clamped      *)
(* count and uniques of the records' traffic.views and traffic.clones,     *)
(* whatever the records' own views_14d_total / clones_14d_total are; once  *)
(* computed, no change of those two fields and no further run changes the  *)
(* totals.                                                                 *)

TrafficTotalsFromBlocks ==
    agg_n >= 1 =>
        /\ payload["totals"].views_14d_total = BlockSum(payload, "views", "count")
        /\ payload["totals"].views_14d_unique = BlockSum(payload, "views", "uniques")
        /\ payload["totals"].clones_14d_total = BlockSum(payload, "clones", "count")
        /\ payload["totals"].clones_14d_unique = BlockSum(payload, "clones", "uniques")

C14_TrafficTotalsIgnoreTopLevel ==
    /\ []TrafficTotalsFromBlocks
    /\ [][agg_n >= 1 => payload'["totals"] = payload["totals"]]_vars

\* github_aggregate has run again after a record's views_14d_total or
\* clones_14d_total was overwritten with a value its traffic block does not hold
C14_Witness ==
    /\ agg_n = MaxRuns
    /\ agg_edits >= 1
    /\ \E i \in DictEntries(payload) :
         \/ ReposOf(payload)[i].views_14d_total = IntV(5)
         \/ ReposOf(payload)[i].clones_14d_total = IntV(5)

----------------------------------------------------------------------------
(* C15: every run of github_aggregate leaves generated_at, repos and       *)
(* errors of the payload as they were, and a run on a payload that was     *)
(* already aggregated returns the payload as it was, totals included.      *)

KeptKeys == {"generated_at", "repos", "errors"}

C15_AggregateIdempotent ==
    [][agg_n' = agg_n + 1 =>
          /\ \A k \in KeptKeys :
                /\ k \in DOMAIN payload' <=> (IsDict(payload) /\ k \in DOMAIN payload)
                /\ k \in DOMAIN payload' => payload'[k] = payload[k]
          /\ "totals" \in DOMAIN payload'
          /\ agg_n >= 1 => payload' = payload]_vars

\* github_aggregate has run twice on a payload with records in it
C15_Witness ==
    /\ agg_n = 2
    /\ payload["totals"].repos >= 1
    /\ payload["totals"].stars # BigZero

----------------------------------------------------------------------------
(* Vocabulary of the claims about the registry and the pipeline *)

\* name was given to one of the first n register calls
RegisteredBy(name, n) == \E i \in 1..n : registered[i].name = name
WasRegistered(name) == RegisteredBy(name, Len(registered))

\* The class of the latest of the first n register calls for name
LastRegistered(name, n) ==
    LET i == CHOOSE j \in 1..n :
                 /\ registered[j].name = name
                 /\ \A k \in (j + 1)..n : registered[k].name # name
    IN  registered[i].cls

\* The steps the runner has answered with a result
StepsDone == { i \in 1..Len(runner_calls) : runner_calls[i].ok }

----------------------------------------------------------------------------
(* C17: Registry.get of a name that was never registered fails (with the   *)
(* lookup error of the registry, KeyError) and leaves the registry as it   *)
(* was; the failure leaves run_block and Pipeline.run: a pipeline never    *)
(* gets past a step naming an unknown block and ends raising that error;   *)
(* has(name) is true exactly for the registered names and get of a         *)
(* registered name returns the class of the latest registration.           *)

RegistryAnswers ==
    /\ reg_result.op = "get" =>
          IF RegisteredBy(reg_result.name, reg_result.at)
          THEN reg_result.ok /\ reg_result.val = LastRegistered(reg_result.name, reg_result.at)
          ELSE ~ reg_result.ok /\ reg_result.err = "KeyError"
    /\ reg_result.op = "has" =>
          reg_result.val = (IF RegisteredBy(reg_result.name, reg_result.at)
                            THEN "True" ELSE "False")

UnknownBlockStops ==
    /\ \A i \in 1..Len(runner_calls) :
          ~ WasRegistered(pl_steps[i].name)
          => /\ ~ runner_calls[i].ok
             /\ runner_calls[i].err = "KeyError"
             /\ i = Len(runner_calls)
             /\ pl_pc = "raised"
             /\ raised = "KeyError"
    /\ pl_pc = "returned" => \A i \in 1..Len(pl_steps) : WasRegistered(pl_steps[i].name)

C17_UnknownBlockFails ==
    /\ [](RegistryAnswers /\ UnknownBlockStops)
    /\ [][(reg_result' # reg_result \/ runner_calls' # runner_calls) => blocks' = blocks]_vars

\* a pipeline whose first step ran has raised KeyError at its second step,
\* which names a block that was never registered
C17_Witness ==
    /\ pl_pc = "raised"
    /\ raised = "KeyError"
    /\ Len(runner_calls) = 2
    /\ runner_calls[1].ok
    /\ ~ WasRegistered(pl_steps[2].name)
    /\ reg_result.op = "get" /\ ~ reg_result.ok

----------------------------------------------------------------------------
(* C18: Pipeline.run calls the runner once per step, in list order, with   *)
(* the step's name and parameters; the first call gets the payload run was *)
(* given and every later call the output of the call before; run returns   *)
(* the output of the last call (its own payload for no steps) and a trail  *)
(* of one entry {block, meta} per step in call order; once the runner has  *)
(* failed no further call is made and the failure leaves run.              *)

CallsChained ==
    /\ Len(runner_calls) <= Len(pl_steps)
    /\ \A i \in 1..Len(runner_calls) :
          /\ runner_calls[i].name = pl_steps[i].name
          /\ runner_calls[i].params = pl_steps[i].params
          /\ runner_calls[i].payload =
                (IF i = 1 THEN pl_payload ELSE runner_calls[i - 1].out)
          /\ i < Len(runner_calls) => runner_calls[i].ok

RunResult ==
    /\ pl_pc = "returned" =>
          /\ Len(runner_calls) = Len(pl_steps)
          /\ StepsDone = 1..Len(pl_steps)
          /\ cur = (IF pl_steps = <<>> THEN pl_payload ELSE runner_calls[Len(pl_steps)].out)
          /\ meta_all = [i \in 1..Len(pl_steps) |->
                            [block |-> pl_steps[i].name, meta |-> runner_calls[i].meta]]
    /\ pl_pc = "raised" =>
          /\ runner_calls # <<>>
          /\ ~ runner_calls[Len(runner_calls)].ok
          /\ raised = runner_calls[Len(runner_calls)].err
    /\ (\E i \in 1..Len(runner_calls) : ~ runner_calls[i].ok) => pl_pc = "raised"

C18_PipelineSequencing ==
    /\ [](CallsChained /\ RunResult)
    /\ [][pl_pc = "raised" => (pl_pc' = "raised" /\ runner_calls' = runner_calls)]_vars

\* a pipeline of two steps has returned: the second call got the output of
\* the first and the trail names both steps
C18_Witness ==
    /\ pl_pc = "returned"
    /\ Len(pl_steps) = 2
    /\ runner_calls[2].payload = runner_calls[1].out
    /\ runner_calls[2].payload # pl_payload
    /\ cur = runner_calls[2].out
    /\ Len(meta_all) = 2

----------------------------------------------------------------------------
(* C19: whatever config file the window was opened over and whatever       *)
(* handlers have run (apply, save as, update, rename, delete, save, load), *)
(* presets of the in-memory config is not empty and holds active_preset,   *)
(* and so does every config the window wrote to disk.                      *)

ConfigSound(c) == DOMAIN c.presets # {} /\ c.active_preset \in DOMAIN c.presets

C19_ActivePresetExists == ConfigSound(cfg) /\ (disk.written => ConfigSound(disk.cfg))

\* the active preset was renamed to "c" and the config written
C19_Witness ==
    /\ gui_last.op = "rename"
    /\ cfg.active_preset = NameC
    /\ disk.written
    /\ disk.cfg = cfg
    /\ Cardinality(DOMAIN cfg.presets) >= 2

----------------------------------------------------------------------------
(* C20: a delete of the selected preset p that the user confirms leaves    *)
(* the config as it was when p is the only preset; otherwise it removes p, *)
(* keeps the names and repo lists of all other presets, and leaves         *)
(* active_preset as it was unless that was p, in which case active_preset  *)
(* becomes the first of the remaining names in lexicographic order.        *)

\* The text of the item the combo selects
ComboText == IF combo_index = 0 THEN <<>> ELSE combo_items[combo_index]

\* on_delete_preset runs and the user answers Yes where asked
DeleteRuns == gui_ops' = gui_ops + 1 /\ gui_last' = Handler("delete", "Yes")

C20_DeleteSelectedPreset ==
    [][DeleteRuns =>
          LET p == ComboText
              others == DOMAIN cfg.presets \ {p}
          IN  IF Cardinality(DOMAIN cfg.presets) <= 1
              THEN cfg' = cfg
              ELSE /\ DOMAIN cfg'.presets = others
                   /\ \A k \in others : cfg'.presets[k] = cfg.presets[k]
                   /\ IF cfg.active_preset = p
                      THEN /\ cfg'.active_preset \in others
                           /\ \A k \in others \ {cfg'.active_preset} :
                                 LexLess(cfg'.active_preset, k)
                      ELSE cfg'.active_preset = cfg.active_preset]_vars

----------------------------------------------------------------------------
(* C21: an invocation with entries after --repos ends with exit code 0     *)
(* after github_fetch and then github_aggregate have run, the totals were  *)
(* printed and the report was written, whatever part of the entries ended  *)
(* in the error list; an invocation for which neither the command line nor *)
(* config.json gives a repo ends with exit code 2 with no HTTP call issued *)
(* and no report written.                                                  *)

\* config.json gives main() no repo
ConfigGivesNone ==
    \/ cli_config.t # "dict"
    \/ cli_config.repos.t # "list"
    \/ \A i \in 1..Len(cli_config.repos.items) :
          cli_config.repos.items[i] \in {NoText, Str(<<>>)}

\* The totals of the report were printed
TotalsPrinted == \E i \in 1..Len(stdout) : stdout[i] = Line("totals", report.totals)

C21_CliExitCodes ==
    cli_pc = "exited" =>
        /\ args.repos # <<>> =>
              /\ exit_code = Exit(0)
              /\ pc = "done"
              /\ agg_n = 1
              /\ report.written
              /\ report.totals = payload["totals"]
              /\ report.repos = out_repos
              /\ report.errors = out_errors
              /\ Len(out_repos) + Len(out_errors) = Len(args.repos)
              /\ TotalsPrinted
        /\ (args.repos = <<>> /\ ConfigGivesNone) =>
              /\ exit_code = Exit(2)
              /\ calls = <<>>
              /\ pc = "idle"
              /\ ~ report.written

----------------------------------------------------------------------------
(* C22: once run_cli has passed the result of github_fetch to              *)
(* github_aggregate, totals.views_14d_total is at most the sum of          *)
(* views_14d_total over the records of the result, and                     *)
(* totals.clones_14d_total at most the sum of their clones_14d_total; the   *)
(* two differ only when some record holds a daily series whose sum is      *)
(* above the reported count.                                               *)

\* a <= b for totals
BigLeq(a, b) == a.hi < b.hi \/ (a.hi = b.hi /\ a.lo <= b.lo)

\* The sum of views_14d_total / clones_14d_total over the records
RecordSum(recs, key) == BigSum([i \in 1..Len(recs) |-> TotalField(recs[i], key)], Len(recs))

\* The total github_aggregate stored for the key
AggregateTotal(key) ==
    IF key = "views" THEN payload["totals"].views_14d_total
    ELSE payload["totals"].clones_14d_total

\* The daily series of the record sums to more than the reported count
SeriesAboveCount(r, key) ==
    /\ HoldsSeries(r, key)
    /\ DailySumBounded(r.traffic[key].series) > Bounded(r.traffic[key].count)

C22_TrafficTotalsBelowRecordSums ==
    (cli_pc = "exited" /\ agg_n >= 1) =>
        \A key \in {"views", "clones"} :
            /\ BigLeq(AggregateTotal(key), RecordSum(out_repos, key))
            /\ AggregateTotal(key) # RecordSum(out_repos, key)
                   => \E i \in 1..Len(out_repos) : SeriesAboveCount(out_repos[i], key)

\* two records were aggregated, one of them with a reported count of 0 over
\* a series of 2*10^9 + 1 views: the total of the counts is 10, the sum of
\* the records' views_14d_total is 2*10^9 + 11
C22_Witness ==
    /\ cli_pc = "exited"
    /\ agg_n >= 1
    /\ Len(out_repos) = 2
    /\ \E i \in 1..2 : /\ HoldsSeries(out_repos[i], "views")
                       /\ out_repos[i].traffic["views"] = SeriesZero
    /\ AggregateTotal("views") = Big(0, 10)
    /\ RecordSum(out_repos, "views") = Big(2, 11)
    /\ AggregateTotal("clones") = RecordSum(out_repos, "clones")

----------------------------------------------------------------------------
(* C23: whatever config file the window was opened over and whatever       *)
(* handlers have run, a config the window wrote to disk holds a non-empty  *)
(* token only if its remember_token is true.                               *)

C23_TokenOnlyIfRemembered ==
    disk.written => (disk.cfg.token # <<>> => disk.cfg.remember_token)

----------------------------------------------------------------------------
(* C24: in every config the window wrote to disk, repos is the list        *)
(* presets[active_preset], and main() run without --repos over that        *)
(* document resolves exactly the entries of that list.                     *)

\* config.json as load_json gives it to main() once the window wrote c
AsConfig(c) == ConfigDict(ListV([i \in 1..Len(c.repos) |-> Str(c.repos[i])]))

C24_ReposMirrorActivePreset ==
    disk.written =>
        /\ disk.cfg.active_preset \in DOMAIN disk.cfg.presets
        /\ disk.cfg.repos = disk.cfg.presets[disk.cfg.active_preset]
        /\ ResolveRepos(Args(TRUE, <<>>, <<>>), AsConfig(disk.cfg))
              = [raised |-> FALSE, repos |-> disk.cfg.presets[disk.cfg.active_preset]]

\* the window was opened without a config file, the editor was changed to
\* the line " r" and the config saved: the active preset and repos are the
\* one line "r"
C24_Witness ==
    /\ disk.written
    /\ gui_last.op = "save"
    /\ editor = <<LinePadR>>
    /\ disk.cfg.active_preset = DEFAULT_PRESET_NAME
    /\ disk.cfg.repos = <<LineR>>
    /\ disk.cfg.presets[DEFAULT_PRESET_NAME] = <<LineR>>

====
